---- MODULE Spec2Model ----
(***************************************************************************)
(* State-machine model of the Nazare wave simulator: the WaveMesh frame    *)
(* callback (animation clock + per-vertex ocean evaluation), the           *)
(* configuration record and every handler that replaces it (sliders,       *)
(* toggles, presets, forecast application), and the seeded noise and       *)
(* terrain generators of the Shore component.                              *)
(*                                                                         *)
(* Numbers.  The program computes in IEEE doubles.  The model computes in  *)
(* fixed point with three decimal digits: the integer n stands for n/1000  *)
(* (metres, seconds, radians, degrees or a pure ratio).  Products are      *)
(* rescaled with Mul, quotients keep the scale.  Math.sin, Math.cos and    *)
(* Math.exp are rational approximations evaluated in that fixed point.     *)
(* Values that a division by zero can make non-finite (the foam amount and *)
(* the colours computed from it) are carried as tagged values with the     *)
(* IEEE cases "num", "pinf", "ninf" and "nan".                             *)
(***************************************************************************)
EXTENDS Integers, Sequences, FiniteSets, TLC

\* ------------------------------------------------------------------------
\* Bounds of the model
\* ------------------------------------------------------------------------

\* Segments per side of the ocean plane (the program uses 200).
GridSegments == 2

\* Frame callbacks explored per behaviour.
MaxTicks == 2

\* Configuration replacements explored per behaviour.
MaxChanges == 1

\* Noise and terrain generator calls per behaviour.
MaxCalls == 3

\* ------------------------------------------------------------------------
\* Fixed-point arithmetic
\* ------------------------------------------------------------------------

\* One unit, three decimal digits.
FP == 10 * 10 * 10

\* Math.PI in fixed point.
PiFP == 3142

Abs(a) == IF a < 0 THEN -a ELSE a

Min(a, b) == IF a < b THEN a ELSE b

Max(a, b) == IF a > b THEN a ELSE b

\* a * b of two fixed-point numbers.
Mul(a, b) == (a * b) \div FP

\* Math.sin of an angle in radians (Bhaskara's rational approximation on a
\* half period, odd extension on the other half).  Sin(0) = 0, |Sin| <= 1.
Sin(a) ==
  LET r == a % (2 * PiFP)
      h == IF r >= PiFP THEN r - PiFP ELSE r
      q == (h * (PiFP - h)) \div 100
      s == (16 * q * FP) \div ((5 * PiFP * PiFP) \div 100 - 4 * q)
  IN  IF r >= PiFP THEN -s ELSE s

\* Math.cos as the quarter-period shift of Math.sin.
Cos(a) == Sin(a + PiFP \div 2)

\* Math.exp(-u) for u >= 0 (reciprocal of the cubic Taylor polynomial of
\* exp(u); below the fixed-point resolution from u = 10 on).
ExpNeg(u) ==
  IF u >= 10 * FP THEN 0
  ELSE (FP * FP) \div (FP + u + (u * u) \div (2 * FP)
                       + (((u * u) \div FP) * u) \div (6 * FP))

\* ------------------------------------------------------------------------
\* IEEE values that may be non-finite
\* ------------------------------------------------------------------------

Num(v) == [k |-> "num", v |-> v]

NaN == [k |-> "nan", v |-> 0]

PosInf == [k |-> "pinf", v |-> 0]

NegInf == [k |-> "ninf", v |-> 0]

IsFinite(f) == f.k = "num"

\* a / b of two numbers, b possibly zero.
FDiv(a, b) ==
  IF b # 0 THEN Num((a * FP) \div b)
  ELSE IF a > 0 THEN PosInf
  ELSE IF a < 0 THEN NegInf
  ELSE NaN

\* Math.max(0, f).
FMax0(f) ==
  CASE f.k = "num" -> Num(Max(0, f.v))
    [] f.k = "pinf" -> PosInf
    [] f.k = "ninf" -> Num(0)
    [] OTHER -> NaN

\* f * c for a finite c >= 0.
FScale(f, c) ==
  CASE f.k = "num" -> Num(Mul(f.v, c))
    [] f.k = "nan" -> NaN
    [] OTHER -> IF c = 0 THEN NaN ELSE f

\* n + f for a finite n.
FAddNum(n, f) == IF f.k = "num" THEN Num(n + f.v) ELSE f

\* Math.min(1, f).
FMin1(f) ==
  CASE f.k = "num" -> Num(Min(FP, f.v))
    [] f.k = "pinf" -> Num(FP)
    [] f.k = "ninf" -> NegInf
    [] OTHER -> NaN

\* ------------------------------------------------------------------------
\* Configuration (WaveConfig, its defaults, presets and slider limits)
\* ------------------------------------------------------------------------

\* Colours the colour picker can hand over, as 8-bit channels of "#rrggbb".
Palette ==
  { [r |-> 255, g |-> 255, b |-> 255],
    [r |-> 0, g |-> 119, b |-> 190],
    [r |-> 0, g |-> 0, b |-> 0] }

\* The colours picked in the explored behaviours.
PickedColors == { [r |-> 255, g |-> 255, b |-> 255] }

Themes == {"dark", "light"}

\* defaultWaveConfig, with an ocean blue and the dark theme as the defaults
\* of the two display fields.
defaultWaveConfig ==
  [ waveHeight |-> 8000, wavePeriod |-> 14000, waveDirection |-> 0,
    waveLength |-> 200000, waveSpeed |-> 1000,
    secondaryWaveHeight |-> 2000, secondaryWavePeriod |-> 8000,
    secondaryWaveDirection |-> 30000,
    windSpeed |-> 15000, windDirection |-> 45000, windChopIntensity |-> 300,
    canyonAmplification |-> 2000, canyonFocusWidth |-> 400,
    canyonDepthEffect |-> 700,
    foamThreshold |-> 600, foamIntensity |-> 500, waterClarity |-> 700,
    wireframe |-> TRUE, animateWaves |-> TRUE, timeScale |-> 1000,
    waveColor |-> [r |-> 0, g |-> 119, b |-> 190], theme |-> "dark" ]

\* wavePresets: each is defaultWaveConfig with some fields replaced.
wavePresets ==
  [ calm |-> [defaultWaveConfig EXCEPT
                !.waveHeight = 2000, !.wavePeriod = 10000, !.windSpeed = 5000,
                !.windChopIntensity = 100, !.canyonAmplification = 1200,
                !.foamIntensity = 200],
    moderate |-> defaultWaveConfig,
    big |-> [defaultWaveConfig EXCEPT
                !.waveHeight = 15000, !.wavePeriod = 16000, !.windSpeed = 25000,
                !.windChopIntensity = 500, !.canyonAmplification = 2500,
                !.foamIntensity = 700],
    extreme |-> [defaultWaveConfig EXCEPT
                !.waveHeight = 25000, !.wavePeriod = 20000,
                !.secondaryWaveHeight = 5000, !.windSpeed = 40000,
                !.windChopIntensity = 800, !.canyonAmplification = 3000,
                !.foamIntensity = 900, !.canyonDepthEffect = 900] ]

PresetNames == {"calm", "moderate", "big", "extreme"}

\* configLimits: the range of every slider.
configLimits ==
  [ waveHeight |-> [min |-> 500, max |-> 30000],
    wavePeriod |-> [min |-> 4000, max |-> 25000],
    waveDirection |-> [min |-> 0, max |-> 360000],
    waveLength |-> [min |-> 50000, max |-> 500000],
    waveSpeed |-> [min |-> 100, max |-> 3000],
    secondaryWaveHeight |-> [min |-> 0, max |-> 10000],
    secondaryWavePeriod |-> [min |-> 4000, max |-> 15000],
    secondaryWaveDirection |-> [min |-> 0, max |-> 360000],
    windSpeed |-> [min |-> 0, max |-> 60000],
    windDirection |-> [min |-> 0, max |-> 360000],
    windChopIntensity |-> [min |-> 0, max |-> 1000],
    canyonAmplification |-> [min |-> 1000, max |-> 4000],
    canyonFocusWidth |-> [min |-> 100, max |-> 1000],
    canyonDepthEffect |-> [min |-> 0, max |-> 1000],
    foamThreshold |-> [min |-> 0, max |-> 1000],
    foamIntensity |-> [min |-> 0, max |-> 1000],
    waterClarity |-> [min |-> 0, max |-> 1000],
    timeScale |-> [min |-> 100, max |-> 3000] ]

\* The sliders the control panel renders.
SliderKeys == DOMAIN configLimits \ {"waveSpeed"}

\* The sliders moved in the explored behaviours.
MovedSliders == {"timeScale", "waterClarity"}

\* The positions a range input is moved to: either end of its range.
SliderValues(key) == {configLimits[key].min, configLimits[key].max}

\* new THREE.Color(waveColor): 8-bit channels scaled to [0, 1].
BaseColor(c) ==
  [ r |-> (c.r * FP) \div 255, g |-> (c.g * FP) \div 255,
    b |-> (c.b * FP) \div 255 ]

\* ------------------------------------------------------------------------
\* Ocean grid
\* ------------------------------------------------------------------------

\* Side of the ocean plane in metres: PlaneGeometry(300, 300, ...).
PlaneSize == 300

VertexIds == 0 .. ((GridSegments + 1) * (GridSegments + 1) - 1)

\* The vertices of PlaneGeometry after rotateX(-PI/2): a lattice in the XZ
\* plane, rows from the back edge (z = -150) to the front edge (z = 150).
GridPositions ==
  [ i \in VertexIds |->
      [ x |-> (PlaneSize * FP * (i % (GridSegments + 1))) \div GridSegments
              - (PlaneSize * FP) \div 2,
        y |-> 0,
        z |-> (PlaneSize * FP * (i \div (GridSegments + 1))) \div GridSegments
              - (PlaneSize * FP) \div 2 ] ]

\* ------------------------------------------------------------------------
\* The per-frame evaluation of the ocean surface (WaveMesh useFrame)
\* ------------------------------------------------------------------------

\* const gravity = 9.8
gravity == 9800

\* Grid spacing for the slope: 300 / 200.
gridSpacing == (300 * FP) \div 200

\* Phase speed c = g T / (2 pi) * waveSpeed * 0.3.
WaveSpeedOf(period, waveSpeed) ==
  Mul(Mul((Mul(gravity, period) * FP) \div (2 * PiFP), waveSpeed), 300)

\* Degrees to radians.
Radians(deg) == Mul(deg, PiFP) \div 180

\* Wave number 2 pi / wavelength.
WaveNumber(len) == (2 * PiFP * FP) \div len

\* A chop multiplier to which the wind adds instead of scaling it.
WindChopMultiplierAdditive(cfg) == cfg.windChopIntensity + cfg.windSpeed \div 20

\* windChopIntensity * (1 + windSpeed / 20).
WindChopMultiplier(cfg) ==
  Mul(cfg.windChopIntensity, FP + cfg.windSpeed \div 20)

\* A canyon profile that is flat on the axis and amplifies towards the sides.
CanyonFactorWidening(cfg, x) ==
  LET distFromCenter == Abs(x) \div 150
      w2 == Mul(cfg.canyonFocusWidth, cfg.canyonFocusWidth)
  IN  FP + Mul(cfg.canyonAmplification - FP,
               FP - ExpNeg((Mul(distFromCenter, distFromCenter) * FP) \div w2))

\* canyonFactor = 1 + (amplification - 1) * exp(-d^2 / focusWidth^2) with
\* d = |x| / 150.
CanyonFactor(cfg, x) ==
  LET distFromCenter == Abs(x) \div 150
      w2 == Mul(cfg.canyonFocusWidth, cfg.canyonFocusWidth)
  IN  FP + Mul(cfg.canyonAmplification - FP,
               ExpNeg((Mul(distFromCenter, distFromCenter) * FP) \div w2))

\* shoreDistance = (z + 150) / 300: 0 at the back edge, 1 at the front.
ShoreDistance(z) == (z + 150 * FP) \div 300

\* A depth factor that shoals towards the front edge.
DepthFactorShoaling(cfg, z) == FP - Mul(cfg.canyonDepthEffect, ShoreDistance(z))

\* depthFactor = 1 + canyonDepthEffect * shoreDistance.
DepthFactor(cfg, z) == FP + Mul(cfg.canyonDepthEffect, ShoreDistance(z))

\* The wind chop height and slope at (x, z): zero unless the multiplier is
\* positive.
WindChop(mult, time, x, z) ==
  IF mult > 0
    THEN LET chopTime == time * 2
             a1 == Mul(x, 80) + Mul(chopTime, 1100)
             b1 == Mul(z, 60) + Mul(chopTime, 900)
             a2 == Mul(x, 150) - Mul(chopTime, 700)
             b2 == Mul(z, 120) + Mul(chopTime, 1300)
             a3 == Mul(x + z, 100) + Mul(chopTime, 800)
             chop1 == Mul(Sin(a1), Cos(b1))
             chop2 == Mul(Sin(a2), Cos(b2))
             chop3 == Sin(a3)
             chopDeriv1 == Mul(Mul(Cos(a1), 80), Cos(b1))
             chopDeriv2 == Mul(Mul(Cos(a2), 150), Cos(b2))
         IN  [ height |-> Mul(Mul(chop1, 500) + Mul(chop2, 300)
                              + Mul(chop3, 200), mult) * 3,
               slope |-> Mul(Mul(chopDeriv1, 500) + Mul(chopDeriv2, 300),
                             mult) * 3 ]
    ELSE [height |-> 0, slope |-> 0]

\* steepness = |primarySlope + secondarySlope + chopSlope| / gridSpacing.
Steepness(primarySlope, secondarySlope, chopSlope) ==
  (Abs(primarySlope + secondarySlope + chopSlope) * FP) \div gridSpacing

\* A foam amount whose crest bonus is added on both sides of the threshold.
FoamAmountCrestAlways(cfg, steepness, totalHeight) ==
  LET foamThreshold == cfg.foamThreshold * 2
      base == IF steepness > foamThreshold
                THEN Mul(Min(FP, (steepness - foamThreshold) * 2),
                         cfg.foamIntensity)
                ELSE 0
      crestBonus == FMax0(FDiv(totalHeight, cfg.waveHeight * 2))
  IN  FMin1(FAddNum(base, FScale(FScale(crestBonus, cfg.foamIntensity), 500)))

\* The foam amount of a vertex: 0 unless the steepness exceeds twice the
\* foam threshold; then the clamped excess times the intensity, plus the
\* crest bonus max(0, totalHeight / (2 waveHeight)) * intensity * 0.5,
\* clamped again with Math.min(1, .).
FoamAmount(cfg, steepness, totalHeight) ==
  LET foamThreshold == cfg.foamThreshold * 2
  IN  IF steepness > foamThreshold
        THEN LET base == Mul(Min(FP, (steepness - foamThreshold) * 2),
                             cfg.foamIntensity)
                 crestBonus == FMax0(FDiv(totalHeight, cfg.waveHeight * 2))
             IN  FMin1(FAddNum(base,
                         FScale(FScale(crestBonus, cfg.foamIntensity), 500)))
        ELSE Num(0)

\* The base colour tinted by the water clarity.
Turbid(bc, clarity) ==
  LET murkiness == FP - clarity
  IN  [ r |-> Mul(bc.r, FP - Mul(murkiness, 300)),
        g |-> Mul(bc.g, FP + Mul(murkiness, 100)),
        b |-> Mul(bc.b, FP - Mul(murkiness, 200)) ]

\* turbid + (1 - turbid) * foam: the blend toward white.
Blend(t, foam) ==
  IF IsFinite(foam) THEN Num(t + Mul(FP - t, foam.v)) ELSE NaN

\* What the frame callback computes once, before the vertex loop.
FrameConstants(cfg) ==
  LET primaryDir == Radians(cfg.waveDirection)
      secondaryDir == Radians(cfg.secondaryWaveDirection)
  IN  [ primaryWaveSpeed |-> WaveSpeedOf(cfg.wavePeriod, cfg.waveSpeed),
        secondaryWaveSpeed |->
          WaveSpeedOf(cfg.secondaryWavePeriod, cfg.waveSpeed),
        windChopMultiplier |-> WindChopMultiplier(cfg),
        primaryK |-> WaveNumber(cfg.waveLength),
        primarySin |-> Sin(primaryDir),
        primaryCos |-> Cos(primaryDir),
        secondaryK |-> WaveNumber(Mul(cfg.waveLength, 600)),
        secondarySin |-> Sin(secondaryDir),
        secondaryCos |-> Cos(secondaryDir),
        turbid |-> Turbid(BaseColor(cfg.waveColor), cfg.waterClarity) ]

\* A phase with a constant offset of a tenth of a radian.
PhaseOffset(k, dirSin, dirCos, speed, time, x, z) ==
  Mul(k, Mul(dirSin, x) + Mul(dirCos, z) - Mul(speed, time)) + 100

\* The phase of a wave train at (x, z): k * (sin * x + cos * z - speed * time).
Phase(k, dirSin, dirCos, speed, time, x, z) ==
  Mul(k, Mul(dirSin, x) + Mul(dirCos, z) - Mul(speed, time))

\* One iteration of the vertex loop: everything computed for the vertex at
\* (x, z) from the configuration, the frame constants and the time.
EvalVertex(cfg, fc, time, x, z) ==
  LET canyonFactor == CanyonFactor(cfg, x)
      depthFactor == DepthFactor(cfg, z)
      primaryPhase == Phase(fc.primaryK, fc.primarySin, fc.primaryCos,
                            fc.primaryWaveSpeed, time, x, z)
      primaryAmplitude == Mul(Mul(cfg.waveHeight, canyonFactor), depthFactor)
      primaryWave == Mul(primaryAmplitude, Sin(primaryPhase))
      primarySlope ==
        Mul(Mul(primaryAmplitude, fc.primaryK), Cos(primaryPhase))
      secondaryPhase == Phase(fc.secondaryK, fc.secondarySin, fc.secondaryCos,
                              fc.secondaryWaveSpeed, time, x, z)
      secondaryAmplitude == Mul(Mul(cfg.secondaryWaveHeight, canyonFactor), 700)
      secondaryWave == Mul(secondaryAmplitude, Sin(secondaryPhase))
      secondarySlope ==
        Mul(Mul(secondaryAmplitude, fc.secondaryK), Cos(secondaryPhase))
      chop == WindChop(fc.windChopMultiplier, time, x, z)
      totalHeight == primaryWave + secondaryWave + chop.height
      steepness == Steepness(primarySlope, secondarySlope, chop.slope)
      foamAmount == FoamAmount(cfg, steepness, totalHeight)
  IN  [ canyonFactor |-> canyonFactor,
        depthFactor |-> depthFactor,
        primaryPhase |-> primaryPhase,
        primaryWave |-> primaryWave,
        secondaryWave |-> secondaryWave,
        windChop |-> chop.height,
        primarySlope |-> primarySlope,
        secondarySlope |-> secondarySlope,
        chopSlope |-> chop.slope,
        totalHeight |-> totalHeight,
        steepness |-> steepness,
        foamAmount |-> foamAmount,
        r |-> Blend(fc.turbid.r, foamAmount),
        g |-> Blend(fc.turbid.g, foamAmount),
        b |-> Blend(fc.turbid.b, foamAmount) ]

\* ------------------------------------------------------------------------
\* Forecast ingestion (utils/forecast.ts)
\* ------------------------------------------------------------------------

\* A line the wave regex matches carries its captures: day name, day
\* number, hour, height (decimal metres), direction (degrees) and period
\* (seconds); any other line is NoMatch.
NoMatch == [match |-> FALSE]

WaveLine(dayNum, hour, height, dir, period) ==
  [ match |-> TRUE, dayName |-> "Mon", dayNum |-> dayNum, hour |-> hour,
    height |-> height, dir |-> dir, period |-> period ]

\* A line the wind regex matches: speed (knots) and direction (degrees).
WindLine(dayNum, hour, speed, dir) ==
  [ match |-> TRUE, dayName |-> "Mon", dayNum |-> dayNum, hour |-> hour,
    speed |-> speed, dir |-> dir ]

\* The wave texts a proxy returns: nothing that parses, and a page with a
\* flat-calm line (height 0.0, period 0), a forecast line and a glassy line
\* (height 0.0, period 9).
WaveTexts ==
  { <<NoMatch>>,
    << WaveLine(3, 15, 0, 300, 0), WaveLine(3, 12, 2500, 270, 12),
       WaveLine(3, 18, 0, 280, 9) >> }

\* The wind texts a proxy returns: an empty page, and one line per hour
\* (a breeze, and no wind from the north).
WindTexts ==
  { <<>>,
    <<WindLine(3, 12, 20, 90), WindLine(3, 15, 0, 0)>> }

\* The datetime key `${dayName} ${dayNum}. ${hourStr}h`.
KeyOf(line) ==
  [dayName |-> line.dayName, dayNum |-> line.dayNum, hour |-> line.hour]

\* windDataMap.get(key): the last matching wind line with that key, if any.
WindLookup(windText, key) ==
  LET hits == { i \in 1 .. Len(windText) :
                  windText[i].match /\ KeyOf(windText[i]) = key }
  IN  IF hits = {} THEN [found |-> FALSE]
      ELSE LET i == CHOOSE j \in hits : \A h \in hits : h <= j
           IN  [found |-> TRUE, windSpeed |-> windText[i].speed,
                windDirection |-> windText[i].dir]

\* a || d on numbers: d when a is 0 (or NaN), else a.
OrDefault(a, d) == IF a = 0 THEN d ELSE a

\* The entry pushed for one matching wave line.
EntryOf(line, windText) ==
  LET windData == WindLookup(windText, KeyOf(line))
  IN  [ datetime |-> KeyOf(line),
        dayName |-> line.dayName,
        hour |-> line.hour,
        waveHeight |-> line.height,
        wavePeriod |-> line.period * FP,
        waveDirection |-> line.dir * FP,
        windSpeed |-> IF windData.found
                        THEN OrDefault(windData.windSpeed, 10) * FP
                        ELSE 10 * FP,
        windDirection |-> IF windData.found
                            THEN OrDefault(windData.windDirection, 45) * FP
                            ELSE 45 * FP ]

\* parseWindguruText: one entry per matching wave line, in line order.
RECURSIVE parseWindguruText(_, _)
parseWindguruText(waveText, windText) ==
  IF waveText = <<>> THEN <<>>
  ELSE LET rest == parseWindguruText(Tail(waveText), windText)
       IN  IF Head(waveText).match
             THEN <<EntryOf(Head(waveText), windText)>> \o rest
             ELSE rest

\* Math.round(v * 10) / 10.
RoundTenth(v) == ((v + 50) \div 100) * 100

\* Math.round(v).
RoundUnit(v) == ((v + FP \div 2) \div FP) * FP

DayNames == <<"Sun", "Mon", "Tue", "Wed", "Thu", "Fri", "Sat">>

\* The moment `new Date()` returns in the explored behaviours: day of week,
\* day of month, hour, and the number of days of the current month.
Dates == { [dow |-> 1, dom |-> 3, hour |-> 14, dim |-> 30] }

\* The entry generateFallbackForecast pushes for day offset d and hour h.
FallbackEntry(today, d, h) ==
  LET variation == Mul(Sin(d * 800 + h * 100), 500) + 500
      dayName == DayNames[((today.dow + d) % 7) + 1]
      dayNum == ((today.dom + d - 1) % today.dim) + 1
  IN  [ datetime |-> [dayName |-> dayName, dayNum |-> dayNum, hour |-> h],
        dayName |-> dayName,
        hour |-> h,
        waveHeight |-> RoundTenth(3 * FP + variation * 12),
        wavePeriod |-> RoundTenth(10 * FP + variation * 8),
        waveDirection |-> RoundUnit(280 * FP + Sin(d * FP) * 40),
        windSpeed |-> RoundTenth(5 * FP + variation * 20),
        windDirection |-> RoundUnit(45 * FP + Cos(d * 500) * 40) ]

\* generateFallbackForecast: seven days of eight three-hourly entries.
generateFallbackForecast(today) ==
  [ n \in 1 .. 56 |-> FallbackEntry(today, (n - 1) \div 8, ((n - 1) % 8) * 3) ]

\* A proxied request: it fails (every proxy threw or answered not ok) or
\* returns a text.
Failed == [ok |-> FALSE]

Fetched(text) == [ok |-> TRUE, text |-> text]

Responses(texts) == {Failed} \cup {Fetched(t) : t \in texts}

\* What one proxy does with a request: fetch throws, the response is not
\* ok, reading the body throws, or the body arrives.
ProxyOutcomes(texts) ==
  {[kind |-> "throws"], [kind |-> "notOk"], [kind |-> "bodyThrows"]}
  \cup {[kind |-> "ok", text |-> t] : t \in texts}

\* fetchWithProxy: the body from the first proxy that delivers one; the
\* request fails when no proxy of CORS_PROXIES does.
RECURSIVE fetchWithProxy(_)
fetchWithProxy(outcomes) ==
  IF outcomes = <<>> THEN Failed
  ELSE IF Head(outcomes).kind = "ok" THEN Fetched(Head(outcomes).text)
  ELSE fetchWithProxy(Tail(outcomes))

\* A fetch that lets a failed request escape: the promise rejects.
fetchForecastDataUncaught(waveResp, windResp, today) ==
  IF waveResp.ok /\ windResp.ok
    THEN LET entries == parseWindguruText(waveResp.text, windResp.text)
         IN  IF Len(entries) = 0
               THEN [ entries |-> generateFallbackForecast(today),
                      error |-> "Could not parse forecast data, using sample data" ]
               ELSE [entries |-> entries, error |-> "null"]
    ELSE [rejected |-> "All CORS proxies failed"]

\* fetchForecastData: the parsed entries when both requests answer and a
\* line parses; the sample forecast with an error message otherwise.
fetchForecastData(waveResp, windResp, today) ==
  IF waveResp.ok /\ windResp.ok
    THEN LET entries == parseWindguruText(waveResp.text, windResp.text)
         IN  IF Len(entries) = 0
               THEN [ entries |-> generateFallbackForecast(today),
                      error |-> "Could not parse forecast data, using sample data" ]
               ELSE [entries |-> entries, error |-> "null"]
    ELSE [ entries |-> generateFallbackForecast(today),
           error |-> "Using sample data (live fetch unavailable)" ]

\* Hours between the start of the current month and an entry, the entry
\* taken to be of next month when its day is more than 7 below today's.
EntryTime(entry, now) ==
  LET day == entry.datetime.dayNum
      monthStart == IF day < now.dom - 7 THEN now.dim * 24 ELSE 0
  IN  monthStart + (day - 1) * 24 + entry.hour

\* Hours between the start of the current month and now.
NowTime(now) == (now.dom - 1) * 24 + now.hour

\* What findNearestForecast returns for an empty list.
Null == [null |-> TRUE]

\* A comparison that lets a later entry win a tie.
NearerOrEqual(diff, smallestDiff) ==
  smallestDiff.k = "pinf" \/ diff <= smallestDiff.v

\* diff < smallestDiff, smallestDiff starting at Infinity.
Nearer(diff, smallestDiff) == smallestDiff.k = "pinf" \/ diff < smallestDiff.v

\* The loop of findNearestForecast from entry i on.  Every datetime the
\* parser and the sample generator build holds a day number, so the loop
\* skips no entry.
RECURSIVE NearestLoop(_, _, _, _, _)
NearestLoop(entries, i, now, nearestEntry, smallestDiff) ==
  IF i > Len(entries) THEN nearestEntry
  ELSE LET diff == Abs(EntryTime(entries[i], now) - NowTime(now))
       IN  IF Nearer(diff, smallestDiff)
             THEN NearestLoop(entries, i + 1, now, entries[i], Num(diff))
             ELSE NearestLoop(entries, i + 1, now, nearestEntry, smallestDiff)

\* findNearestForecast: null for an empty list, else the entry the loop
\* ends with.
findNearestForecast(entries, now) ==
  IF Len(entries) = 0 THEN Null
  ELSE NearestLoop(entries, 1, now, entries[1], PosInf)

\* A forecast application built on the default configuration instead of the
\* one passed in.
applyForecastToDefault(cfg, entry) ==
  [ defaultWaveConfig EXCEPT
      !.waveHeight = entry.waveHeight,
      !.wavePeriod = entry.wavePeriod,
      !.waveDirection = (entry.waveDirection + 180 * FP) % (360 * FP),
      !.windSpeed = Mul(entry.windSpeed, 514),
      !.windDirection = entry.windDirection,
      !.windChopIntensity = Min(FP, Mul(entry.windSpeed, 514) \div 15) ]

\* applyForecastToConfig: the configuration with the six forecast-driven
\* fields replaced.
applyForecastToConfig(cfg, entry) ==
  LET simWaveDirection == (entry.waveDirection + 180 * FP) % (360 * FP)
      windSpeedMs == Mul(entry.windSpeed, 514)
  IN  [ cfg EXCEPT
          !.waveHeight = entry.waveHeight,
          !.wavePeriod = entry.wavePeriod,
          !.waveDirection = simWaveDirection,
          !.windSpeed = windSpeedMs,
          !.windDirection = entry.windDirection,
          !.windChopIntensity = Min(FP, windSpeedMs \div 15) ]

\* ------------------------------------------------------------------------
\* Shore: seeded noise and the terrain generators
\* ------------------------------------------------------------------------

\* a * b on fixed-point numbers, for operands whose product exceeds 32 bits.
MulWide(a, b) == (a \div FP) * b + ((a % FP) * b) \div FP

\* a / b on fixed-point numbers, b # 0.
Div(a, b) == (a * FP) \div b

\* Math.sin with six decimals, for the hash below.
SinMicro(a) ==
  LET r == a % (2 * PiFP)
      h == IF r >= PiFP THEN r - PiFP ELSE r
      q == (h * (PiFP - h)) \div 100
      den == (5 * PiFP * PiFP) \div 100 - 4 * q
      s == ((16 * q * FP) \div den) * FP + (((16 * q * FP) % den) * FP) \div den
  IN  IF r >= PiFP THEN -s ELSE s

\* seededRandom: the fractional part of sin(seed) * 10000.
seededRandom(seed) == (SinMicro(seed) * 10) % FP

\* A nonzero double too small for the fixed point, with its sign: a magnitude
\* below 5e-21 (-1e-21 for sign -1), where Math.sin(v) is v and v * 10000 is
\* less than half the gap between 1 and the double below it.
Tiny(sign) == [k |-> "tiny", v |-> sign]

\* x = Math.sin(seed) * 10000 on a double.
SinTimes10000(seed) ==
  IF seed.k = "tiny" THEN seed ELSE Num(SinMicro(seed.v) * 10)

\* x - Math.floor(x) on a double.  Math.floor of a tiny negative x is -1, and
\* x + 1 rounds to the nearest double, which is 1.
FloorFraction(x) ==
  IF x.k = "tiny" THEN (IF x.v < 0 THEN Num(FP) ELSE x) ELSE Num(x.v % FP)

\* seededRandom of Shore on doubles, tiny seeds included.
ShoreSeededRandom(seed) == FloorFraction(SinTimes10000(seed))

\* seededRandom of Lighthouse, the same two lines.
LighthouseSeededRandom(seed) == FloorFraction(SinTimes10000(seed))

\* noise3D: three products of a sine and a cosine.
noise3D(x, y, z) ==
  Mul(Sin(MulWide(x, 500) + MulWide(y, 300)),
      Cos(MulWide(z, 400) + MulWide(x, 200)))
  + Mul(Mul(Sin(MulWide(y, 700) - MulWide(z, 500)), Cos(MulWide(x, 600))), 500)
  + Mul(Mul(Sin(MulWide(x, 1300) + MulWide(z, 1100)), Cos(MulWide(y, 900))),
        250)

\* The loop of fbm from octave i on: the weighted sum and the sum of weights.
RECURSIVE FbmFrom(_, _, _, _, _, _)
FbmFrom(i, octaves, amplitude, frequency, x, y) ==
  IF i >= octaves THEN [value |-> 0, maxValue |-> 0]
  ELSE LET rest == FbmFrom(i + 1, octaves, amplitude \div 2,
                           Mul(frequency, 2100), x, y)
       IN  [ value |-> Mul(amplitude,
                           noise3D(MulWide(x, frequency),
                                   MulWide(y, frequency), i * 100 * FP))
                       + rest.value,
             maxValue |-> amplitude + rest.maxValue ]

\* fbm: the octave sum normalised by the sum of the amplitudes.
fbm(x, y, octaves) ==
  LET acc == FbmFrom(0, octaves, FP, FP, x, y)
  IN  Div(acc.value, acc.maxValue)

\* The vertices of new THREE.PlaneGeometry(width, height, segX, segY), row by
\* row from the top edge, z = 0.
PlaneGeometry(width, height, segX, segY) ==
  [ i \in 0 .. ((segX + 1) * (segY + 1) - 1) |->
      [ x |-> ((i % (segX + 1)) * width) \div segX - width \div 2,
        y |-> height \div 2 - ((i \div (segX + 1)) * height) \div segY,
        z |-> 0 ] ]

\* The displacement createCliffGeometry writes to one vertex.
CliffDisplacement(x, y, height, seed, displaceAmount) ==
  LET large == Mul(fbm(MulWide(x, 30) + seed, MulWide(y, 40), 3),
                   displaceAmount)
      medium == Mul(fbm(MulWide(x, 100) + seed, MulWide(y, 120), 2),
                    Mul(displaceAmount, 400))
      small == Mul(fbm(MulWide(x, 300) + seed, MulWide(y, 350), 2),
                   Mul(displaceAmount, 150))
      erosion ==
        Mul(Mul(Max(0, FP - Div(y + height \div 2, Mul(height, 400))),
                fbm(MulWide(x, 150) + seed, MulWide(y, 100), 2)),
            Mul(displaceAmount, 500))
      overhang ==
        Mul(Mul(Max(0, Div(y - Mul(height, 300), Mul(height, 200))),
                fbm(MulWide(x, 80) + seed, MulWide(y, 50), 2)),
            Mul(displaceAmount, 300))
      cracks == Mul(Mul(Sin(MulWide(x, 400) + seed), Sin(MulWide(y, 200))),
                    Mul(displaceAmount, 150))
  IN  large + medium + small + erosion - overhang + cracks

\* One term of the displacement before it is scaled by displaceAmount and
\* its sub-weight: the noise of large, medium and small, the band factor
\* times the noise of erosion and overhang, the product of sines of cracks.
CliffTerm(name, x, y, height, seed) ==
  CASE name = "large" -> fbm(MulWide(x, 30) + seed, MulWide(y, 40), 3)
    [] name = "medium" -> fbm(MulWide(x, 100) + seed, MulWide(y, 120), 2)
    [] name = "small" -> fbm(MulWide(x, 300) + seed, MulWide(y, 350), 2)
    [] name = "erosion" ->
         Mul(Max(0, FP - Div(y + height \div 2, Mul(height, 400))),
             fbm(MulWide(x, 150) + seed, MulWide(y, 100), 2))
    [] name = "overhang" ->
         Mul(Max(0, Div(y - Mul(height, 300), Mul(height, 200))),
             fbm(MulWide(x, 80) + seed, MulWide(y, 50), 2))
    [] name = "cracks" ->
         Mul(Sin(MulWide(x, 400) + seed), Sin(MulWide(y, 200)))

\* createCliffGeometry: a fresh plane with every vertex displaced along z.
createCliffGeometry(width, height, segX, segY, seed, displaceAmount) ==
  LET geo == PlaneGeometry(width, height, segX, segY)
  IN  [ i \in DOMAIN geo |->
          [ geo[i] EXCEPT
              !.z = CliffDisplacement(geo[i].x, geo[i].y, height, seed,
                                      displaceAmount) ] ]

\* The twelve corners of new THREE.IcosahedronGeometry(baseSize, detail);
\* every level of detail keeps them.
IcosahedronGeometry(baseSize) ==
  LET a == Mul(baseSize, 526)
      b == Mul(baseSize, 851)
  IN  << [x |-> -a, y |-> b, z |-> 0], [x |-> a, y |-> b, z |-> 0],
         [x |-> -a, y |-> -b, z |-> 0], [x |-> a, y |-> -b, z |-> 0],
         [x |-> 0, y |-> -a, z |-> b], [x |-> 0, y |-> a, z |-> b],
         [x |-> 0, y |-> -a, z |-> -b], [x |-> 0, y |-> a, z |-> -b],
         [x |-> b, y |-> 0, z |-> -a], [x |-> b, y |-> 0, z |-> a],
         [x |-> -b, y |-> 0, z |-> -a], [x |-> -b, y |-> 0, z |-> a] >>

\* A vertical scale that flattens the upper hemisphere as well.
YScaleEverywhere(y, flattenBottom) == flattenBottom

\* yScale = y < 0 ? flattenBottom : 1.0
YScale(y, flattenBottom) == IF y < 0 THEN flattenBottom ELSE FP

\* displacement = 1 + fbm(...) * 0.3
RockDisplacement(p, seed) ==
  FP + Mul(fbm(MulWide(p.x, 80) + seed,
               MulWide(p.y, 100) + MulWide(p.z, 80) + seed, 3), 300)

\* What createRockGeometry writes to one vertex.
RockVertex(p, seed, flattenBottom, stretchX, stretchZ) ==
  LET yScale == YScale(p.y, flattenBottom)
      displacement == RockDisplacement(p, seed)
      angular ==
        FP + Mul(Mul(Sin(2 * p.x + seed), Cos(2 * p.z + seed)), 100)
  IN  [ x |-> Mul(Mul(Mul(p.x, displacement), angular), stretchX),
        y |-> Mul(Mul(Mul(p.y, yScale), displacement), 850),
        z |-> Mul(Mul(Mul(p.z, displacement), angular), stretchZ) ]

\* createRockGeometry: a fresh icosahedron with every vertex displaced.
createRockGeometry(baseSize, detail, seed, flattenBottom, stretchX, stretchZ) ==
  LET geo == IcosahedronGeometry(baseSize)
  IN  [ i \in DOMAIN geo |->
          RockVertex(geo[i], seed, flattenBottom, stretchX, stretchZ) ]

\* What createBeachGeometry writes for one vertex of the plane (x, z): the
\* height, and the wetness stored in the three colour components.
BeachVertex(x, z, depth) ==
  LET slopeY == Div(z, depth) * 8 - 4 * FP
      ripples == Mul(Mul(Sin(MulWide(x, 200)), Cos(MulWide(z, 300))), 300)
      wetness == Max(0, Min(FP, FP - Div(z + depth \div 2, depth)))
  IN  [height |-> slopeY + ripples, wetness |-> wetness]

\* createBeachGeometry: a fresh plane, displaced, coloured, then rotated by
\* -90 degrees about the x axis.
createBeachGeometry(width, depth, segX, segY) ==
  LET geo == PlaneGeometry(width, depth, segX, segY)
  IN  [ i \in DOMAIN geo |->
          LET v == BeachVertex(geo[i].x, geo[i].y, depth)
          IN  [ x |-> geo[i].x, y |-> v.height, z |-> -geo[i].y,
                r |-> v.wetness, g |-> v.wetness, b |-> v.wetness ] ]

\* ------------------------------------------------------------------------
\* Shore: the scene the component builds from its props
\* ------------------------------------------------------------------------

\* shoreThemes: the colour table of each theme.
shoreThemes ==
  [ dark |->
      [ cliff |-> "#3a3530", cliffLight |-> "#4a4540",
        cliffDark |-> "#2a2520", cliffWarm |-> "#403028",
        strataLight |-> "#4a4238", strataDark |-> "#302820",
        strataOchre |-> "#453525", sandDry |-> "#5a5040",
        sandWet |-> "#3a3528", sandWaterline |-> "#2a2820",
        rock |-> "#2a2520", rockLight |-> "#3a3530",
        rockDark |-> "#1a1510", underwaterSand |-> "#282520",
        underwaterRock |-> "#1a1815" ],
    light |->
      [ cliff |-> "#b8a890", cliffLight |-> "#c8b8a0",
        cliffDark |-> "#a09080", cliffWarm |-> "#c0a080",
        strataLight |-> "#d0c0a8", strataDark |-> "#988870",
        strataOchre |-> "#c8a070", sandDry |-> "#e8d8b8",
        sandWet |-> "#a89870", sandWaterline |-> "#887858",
        rock |-> "#807060", rockLight |-> "#9a8a70",
        rockDark |-> "#605040", underwaterSand |-> "#706050",
        underwaterRock |-> "#504030" ] ]

\* Math.floor(perUnit * rockDensity), the number of candidates of a loop.
BaseCount(perUnit, rockDensity) == (perUnit * rockDensity) \div FP

\* The heights cliffTopGeo writes on its plane (segments reduced to 2 x 2).
cliffTopGeo ==
  LET geo == PlaneGeometry(420 * FP, 120 * FP, 2, 2)
  IN  [ i \in DOMAIN geo |->
          [ x |-> geo[i].x,
            y |-> Mul(fbm(MulWide(geo[i].x, 15), MulWide(geo[i].y, 20), 4),
                      8 * FP)
                  + Mul(fbm(MulWide(geo[i].x, 50), MulWide(geo[i].y, 60), 2),
                        3 * FP),
            z |-> -geo[i].y ] ]

\* The twelve entries of the configs table of fortConnectorRocks.
FortConnectorConfigs ==
  << [pos |-> <<-80, 8, 158>>, size |-> 22, seed |-> 420, flatY |-> 350,
      strX |-> 1300, strZ |-> 1400],
     [pos |-> <<-60, 12, 155>>, size |-> 18, seed |-> 425, flatY |-> 400,
      strX |-> 1200, strZ |-> 1300],
     [pos |-> <<-100, 10, 155>>, size |-> 20, seed |-> 430, flatY |-> 350,
      strX |-> 1300, strZ |-> 1200],
     [pos |-> <<-75, 0, 150>>, size |-> 18, seed |-> 435, flatY |-> 300,
      strX |-> 1400, strZ |-> 1300],
     [pos |-> <<-90, 5, 148>>, size |-> 16, seed |-> 440, flatY |-> 350,
      strX |-> 1200, strZ |-> 1400],
     [pos |-> <<-50, 15, 158>>, size |-> 15, seed |-> 445, flatY |-> 450,
      strX |-> 1100, strZ |-> 1200],
     [pos |-> <<-110, 12, 158>>, size |-> 17, seed |-> 450, flatY |-> 400,
      strX |-> 1200, strZ |-> 1100],
     [pos |-> <<-70, 18, 162>>, size |-> 14, seed |-> 455, flatY |-> 500,
      strX |-> 1000, strZ |-> 1300],
     [pos |-> <<-95, 15, 162>>, size |-> 16, seed |-> 460, flatY |-> 450,
      strX |-> 1100, strZ |-> 1200],
     [pos |-> <<-65, -3, 145>>, size |-> 14, seed |-> 465, flatY |-> 300,
      strX |-> 1500, strZ |-> 1200],
     [pos |-> <<-95, -2, 145>>, size |-> 15, seed |-> 470, flatY |-> 300,
      strX |-> 1400, strZ |-> 1300],
     [pos |-> <<-80, -5, 140>>, size |-> 12, seed |-> 475, flatY |-> 250,
      strX |-> 1600, strZ |-> 1100] >>

\* fortConnectorRocks: one generated rock per entry of the table.
fortConnectorRocks ==
  [ n \in DOMAIN FortConnectorConfigs |->
      LET cfg == FortConnectorConfigs[n]
      IN  [ geo |-> createRockGeometry(cfg.size * FP, 3, cfg.seed * FP,
                                       cfg.flatY, cfg.strX, cfg.strZ),
            position |-> << cfg.pos[1] * FP, cfg.pos[2] * FP,
                            cfg.pos[3] * FP >>,
            rotation |-> << Mul(seededRandom(cfg.seed * FP), 250),
                            Mul(seededRandom((cfg.seed + 1) * FP), 2 * PiFP),
                            Mul(seededRandom((cfg.seed + 2) * FP), 250) >> ] ]

\* x of water-rock candidate i.
WaterRockX(i) == -160 * FP + seededRandom(i * 7 * FP) * 320

\* A test that skips no candidate.
SkipNoWaterRock(x) == FALSE

\* if (x > -130 && x < -30) continue;
SkipWaterRock(x) == x > -130 * FP /\ x < -30 * FP

\* What the loop of waterRocks pushes for candidate i.
WaterRock(i) ==
  LET x == WaterRockX(i)
      z == 128 * FP + seededRandom((i * 7 + 1) * FP) * 28
      size == 2 * FP + seededRandom((i * 7 + 2) * FP) * 6
      embedDepth == Mul(size, 150)
  IN  [ position |-> <<x, -6 * FP - embedDepth, z>>,
        scale |-> <<Mul(size, 1500), Mul(size, 350), Mul(size, 1200)>>,
        rotation |-> << Mul(seededRandom(i * 11 * FP), 200),
                        Mul(seededRandom((i * 11 + 1) * FP), 2 * PiFP),
                        Mul(seededRandom((i * 11 + 2) * FP), 200) >>,
        detail |-> IF size > 4 * FP THEN 2 ELSE 1,
        baseScale |-> size ]

\* The loop of waterRocks over the candidates from, from + 1, .. below to.
RECURSIVE WaterRocksLoop(_, _)
WaterRocksLoop(from, to) ==
  IF from >= to THEN <<>>
  ELSE (IF SkipWaterRock(WaterRockX(from)) THEN <<>> ELSE <<WaterRock(from)>>)
       \o WaterRocksLoop(from + 1, to)

\* A loop that keeps the highest candidates when the density drops.
waterRocksFromTop(rockDensity) ==
  WaterRocksLoop(30 - BaseCount(30, rockDensity), 30)

\* waterRocks: the candidates 0 .. baseCount - 1 that are not skipped.
waterRocks(rockDensity) == WaterRocksLoop(0, BaseCount(30, rockDensity))

\* x of outcrop candidate i.
OutcropX(i) == -190 * FP + seededRandom((500 + i * 5) * FP) * 380

\* if (x > -125 && x < -35) continue;
SkipOutcrop(x) == x > -125 * FP /\ x < -35 * FP

\* What the loop of cliffOutcrops pushes for candidate i.
Outcrop(i) ==
  LET x == OutcropX(i)
      y == -5 * FP + seededRandom((500 + i * 5 + 1) * FP) * 48
      z == 155 * FP + seededRandom((500 + i * 5 + 2) * FP) * 5
      size == 3 * FP + seededRandom((500 + i * 5 + 3) * FP) * 7
  IN  [ position |-> <<x, y, z>>,
        scale |-> <<Mul(size, 800), Mul(size, 500), Mul(size, 1800)>>,
        rotation |-> << Mul(seededRandom((500 + i * 9) * FP), 250) - 125,
                        Mul(seededRandom((500 + i * 9 + 1) * FP), PiFP),
                        Mul(seededRandom((500 + i * 9 + 2) * FP), 250)
                        - 125 >> ]

\* The loop of cliffOutcrops over the candidates from .. below to.
RECURSIVE OutcropsLoop(_, _)
OutcropsLoop(from, to) ==
  IF from >= to THEN <<>>
  ELSE (IF SkipOutcrop(OutcropX(from)) THEN <<>> ELSE <<Outcrop(from)>>)
       \o OutcropsLoop(from + 1, to)

\* cliffOutcrops: the candidates 0 .. baseCount - 1 that are not skipped.
cliffOutcrops(rockDensity) == OutcropsLoop(0, BaseCount(35, rockDensity))

\* Strata bands whose height follows the theme.
strataLayersThemed(theme) ==
  [ n \in 1 .. 6 |->
      LET i == n - 1
          strataColors == <<theme.strataLight, theme.strataDark,
                            theme.strataOchre>>
      IN  [ y |-> -5 * FP + i * 9 * FP + seededRandom((800 + i) * FP) * 4
                  + (IF theme.strataLight = "#d0c0a8" THEN FP ELSE 0),
            thickness |-> 800 + Mul(seededRandom((810 + i) * FP), 600),
            color |-> strataColors[(i % 3) + 1] ] ]

\* strataLayers: six bands, coloured from the theme in turn.
strataLayers(theme) ==
  [ n \in 1 .. 6 |->
      LET i == n - 1
          strataColors == <<theme.strataLight, theme.strataDark,
                            theme.strataOchre>>
      IN  [ y |-> -5 * FP + i * 9 * FP + seededRandom((800 + i) * FP) * 4,
            thickness |-> 800 + Mul(seededRandom((810 + i) * FP), 600),
            color |-> strataColors[(i % 3) + 1] ] ]

\* The shadow disc under placed water rock i (i counts the placed rocks).
WaterRockShadow(rocks, i) ==
  [ position |-> <<rocks[i + 1].position[1], -11900, rocks[i + 1].position[3]>>,
    rotation |-> <<-(PiFP \div 2), 0, Mul(seededRandom(i * 13 * FP), PiFP)>>,
    radius |-> Mul(rocks[i + 1].baseScale, 900) ]

\* The scattered beach rocks: the rock and its shadow for index i.
BeachRock(i, beachWidth) ==
  LET x == 50 * FP + Mul(seededRandom((900 + i) * FP), beachWidth)
      z == 118 * FP + seededRandom((900 + i + 1) * FP) * 20
      size == 500 + Mul(seededRandom((900 + i + 2) * FP), 1500)
      embedY == -4 * FP - Mul(size, 300)
  IN  [ position |-> <<x, embedY, z>>,
        rotation |-> << Mul(seededRandom((920 + i) * FP), 300),
                        Mul(seededRandom((920 + i + 1) * FP), PiFP),
                        Mul(seededRandom((920 + i + 2) * FP), 300) >>,
        scale |-> <<Mul(size, 1200), Mul(size, 500), size>>,
        shadowPosition |-> <<x, -3950, z>>,
        shadowRotation |-> << -(PiFP \div 2), 0,
                              Mul(seededRandom((930 + i) * FP), PiFP) >>,
        shadowRadius |-> Mul(size, 700) ]

BeachRocks(rockDensity, beachWidth) ==
  [ n \in 1 .. BaseCount(15, rockDensity) |-> BeachRock(n - 1, beachWidth) ]

\* The groups of seededRandom draws of the placed features: candidates per
\* unit of rockDensity and the number of attributes drawn per candidate.
DrawGroups ==
  [ waterRockPlacement |-> [perUnit |-> 30, attributes |-> 3],
    waterRockRotation |-> [perUnit |-> 30, attributes |-> 3],
    outcropPlacement |-> [perUnit |-> 35, attributes |-> 4],
    outcropRotation |-> [perUnit |-> 35, attributes |-> 3],
    beachRockPlacement |-> [perUnit |-> 15, attributes |-> 3],
    beachRockRotation |-> [perUnit |-> 15, attributes |-> 3] ]

\* The seed of attribute a (counted from 0 in the order drawn) of
\* candidate i in a group.
DrawSeed(group, i, a) ==
  CASE group = "waterRockPlacement" -> i * 7 + a
    [] group = "waterRockRotation" -> i * 11 + a
    [] group = "outcropPlacement" -> 500 + i * 5 + a
    [] group = "outcropRotation" -> 500 + i * 9 + a
    [] group = "beachRockPlacement" -> 900 + i + a
    [] group = "beachRockRotation" -> 920 + i + a

\* ------------------------------------------------------------------------
\* State
\* ------------------------------------------------------------------------

VARIABLES
  config,             \* App's WaveConfig state
  startup,            \* "pending" until App's startup fetch has resolved
  forecast,           \* the entries the forecast panel holds
  meshMounted,        \* meshRef.current is set
  timeRef,            \* the simulation time accumulator (seconds)
  originalPositions,  \* the stored copy of the base grid
  positions,          \* the geometry's position buffer
  colors,             \* the geometry's colour buffer
  probe,              \* the inputs and per-vertex values of the last frame
  enabledSum,         \* sum of delta * timeScale over the animated frames
  ticks,              \* frames run
  changes,            \* configuration replacements made
  terrainLog,         \* the calls of pure functions made, with results
  shore,              \* what Shore's last render produced, memoised values included
  shorePrev,          \* what the render before it produced (regenerated emptied)
  panels              \* the open flags of App and the state of ForecastPanel

vars ==
  << config, startup, forecast, meshMounted, timeRef, originalPositions,
     positions, colors, probe, enabledSum, ticks,
     changes, terrainLog, shore, shorePrev, panels >>

appVars == <<config, startup, forecast, changes>>

shoreVars == <<shore, shorePrev>>

meshVars ==
  << meshMounted, timeRef, originalPositions, positions, colors, probe,
     enabledSum, ticks >>

\* The frame deltas explored (seconds): one 60 Hz frame.
Deltas == {16}

NoFrame == [valid |-> FALSE]

\* Shore has not rendered.
NoShore == [rendered |-> FALSE]

\* App and ForecastPanel after their first render in a window that is
\* narrower than 640 px (mobile) or not: both panels closed, no forecast
\* held, nothing loading.  request is the last open or close request made
\* of App and before the two open flags of App as they were when it
\* arrived; outstanding counts the fetchForecast calls that have not
\* resolved.
ClosedPanels(mobile) ==
  [ isMobile |-> mobile,
    controlPanelOpen |-> FALSE,
    forecastPanelOpen |-> FALSE,
    request |-> [panel |-> "none", open |-> FALSE],
    before |-> <<FALSE, FALSE>>,
    isOpen |-> FALSE,
    forecast |-> [entries |-> <<>>, loading |-> FALSE, error |-> "null"],
    selectedIndex |-> 0,
    outstanding |-> 0 ]

Init ==
  /\ config = defaultWaveConfig
  /\ startup = "pending"
  /\ forecast = <<>>
  /\ meshMounted = FALSE
  /\ timeRef = 0
  /\ originalPositions = GridPositions
  /\ positions = GridPositions
  /\ colors = [i \in VertexIds |-> [r |-> Num(0), g |-> Num(0), b |-> Num(0)]]
  /\ probe = NoFrame
  /\ enabledSum = 0
  /\ ticks = 0
  /\ changes = 0
  /\ terrainLog = <<>>
  /\ shore = NoShore
  /\ shorePrev = NoShore
  /\ panels = ClosedPanels(FALSE)

\* ------------------------------------------------------------------------
\* WaveMesh
\* ------------------------------------------------------------------------

\* React attaches the mesh to meshRef; frames before that return at once.
Mount ==
  /\ ~meshMounted
  /\ meshMounted' = TRUE
  /\ UNCHANGED << timeRef, originalPositions, positions, colors, probe,
                  enabledSum, ticks >>
  /\ UNCHANGED appVars
  /\ UNCHANGED terrainLog
  /\ UNCHANGED shoreVars
  /\ UNCHANGED panels

\* A clock that runs backwards.
AdvanceTimeBackwards(t, delta, cfg) ==
  IF cfg.animateWaves THEN t - Mul(delta, cfg.timeScale) ELSE t

\* A clock that ignores the pause toggle.
AdvanceTimeAlways(t, delta, cfg) == t + Mul(delta, cfg.timeScale)

\* if (config.animateWaves) timeRef.current += delta * config.timeScale
AdvanceTime(t, delta, cfg) ==
  IF cfg.animateWaves THEN t + Mul(delta, cfg.timeScale) ELSE t

\* The core's stated preconditions on a configuration.
InUnitRange(v) == 0 <= v /\ v <= FP

Preconditions(cfg) ==
  /\ cfg.waveLength > 0
  /\ cfg.wavePeriod > 0
  /\ cfg.secondaryWavePeriod > 0
  /\ InUnitRange(cfg.waterClarity)
  /\ InUnitRange(cfg.foamIntensity)
  /\ InUnitRange(cfg.foamThreshold)
  /\ InUnitRange(cfg.windChopIntensity)
  /\ InUnitRange(cfg.canyonDepthEffect)

\* A buffer value that is a number of [0, 1].
InUnit(f) == IsFinite(f) /\ InUnitRange(f.v)

\* A height write that adds to what the buffer held.
WriteHeightAccumulate(p, h) == [p EXCEPT !.y = p.y + h]

\* A height write that also displaces the vertex sideways.
WriteHeightDisplace(p, h) == [p EXCEPT !.y = h, !.x = p.x + h]

\* positions[i + 1] = totalHeight
WriteHeight(p, h) == [p EXCEPT !.y = h]

\* The position buffer after the vertex loop: x and z are read from the
\* stored original positions, the height is written to the working buffer.
WritePositions(buf, out) ==
  [i \in VertexIds |-> WriteHeight(buf[i], out[i].totalHeight)]

\* The colour buffer after the vertex loop.
WriteColors(out) ==
  [i \in VertexIds |-> [r |-> out[i].r, g |-> out[i].g, b |-> out[i].b]]

\* The vertex loop over the whole grid.
Evaluate(cfg, time, grid) ==
  LET fc == FrameConstants(cfg)
  IN  [i \in VertexIds |-> EvalVertex(cfg, fc, time, grid[i].x, grid[i].z)]

\* One useFrame callback with frame delta `delta`.
Tick(delta) ==
  /\ meshMounted
  /\ ticks < MaxTicks
  /\ LET time == AdvanceTime(timeRef, delta, config)
         out == Evaluate(config, time, originalPositions)
         pos == WritePositions(positions, out)
         col == WriteColors(out)
     IN  /\ timeRef' = time
         /\ positions' = pos
         /\ colors' = col
         /\ probe' = [valid |-> TRUE, config |-> config, time |-> time,
                      out |-> out]
  /\ enabledSum' = IF config.animateWaves
                     THEN enabledSum + Mul(delta, config.timeScale)
                     ELSE enabledSum
  /\ ticks' = ticks + 1
  /\ UNCHANGED <<meshMounted, originalPositions>>
  /\ UNCHANGED appVars
  /\ UNCHANGED terrainLog
  /\ UNCHANGED shoreVars
  /\ UNCHANGED panels

\* ------------------------------------------------------------------------
\* App and its panels: every handler that replaces the configuration
\* ------------------------------------------------------------------------

\* setConfig(next)
SetConfig(next) ==
  /\ changes < MaxChanges
  /\ config' = next
  /\ changes' = changes + 1

\* ControlPanel.updateConfig through a slider.
UpdateSlider(key, v) ==
  /\ SetConfig([config EXCEPT ![key] = v])
  /\ UNCHANGED <<startup, forecast>>
  /\ UNCHANGED meshVars
  /\ UNCHANGED terrainLog
  /\ UNCHANGED shoreVars
  /\ UNCHANGED panels

\* The Dark Theme toggle.
ToggleTheme ==
  /\ SetConfig([config EXCEPT
                  !.theme = IF config.theme = "dark" THEN "light" ELSE "dark"])
  /\ UNCHANGED <<startup, forecast>>
  /\ UNCHANGED meshVars
  /\ UNCHANGED terrainLog
  /\ UNCHANGED shoreVars
  /\ UNCHANGED panels

\* The Animate Waves toggle.
ToggleAnimateWaves ==
  /\ SetConfig([config EXCEPT !.animateWaves = ~config.animateWaves])
  /\ UNCHANGED <<startup, forecast>>
  /\ UNCHANGED meshVars
  /\ UNCHANGED terrainLog
  /\ UNCHANGED shoreVars
  /\ UNCHANGED panels

\* The Wireframe Grid toggle.
ToggleWireframe ==
  /\ SetConfig([config EXCEPT !.wireframe = ~config.wireframe])
  /\ UNCHANGED <<startup, forecast>>
  /\ UNCHANGED meshVars
  /\ UNCHANGED terrainLog
  /\ UNCHANGED shoreVars
  /\ UNCHANGED panels

\* The Wave Color picker.
PickColor(c) ==
  /\ SetConfig([config EXCEPT !.waveColor = c])
  /\ UNCHANGED <<startup, forecast>>
  /\ UNCHANGED meshVars
  /\ UNCHANGED terrainLog
  /\ UNCHANGED shoreVars
  /\ UNCHANGED panels

\* A preset application that keeps the current animation speed.
PresetConfigKeepingSpeed(cfg, name) ==
  [ wavePresets[name] EXCEPT
      !.wireframe = cfg.wireframe, !.animateWaves = cfg.animateWaves,
      !.waveColor = cfg.waveColor, !.theme = cfg.theme,
      !.timeScale = cfg.timeScale ]

\* ControlPanel.applyPreset: the preset with the four display fields kept.
PresetConfig(cfg, name) ==
  [ wavePresets[name] EXCEPT
      !.wireframe = cfg.wireframe, !.animateWaves = cfg.animateWaves,
      !.waveColor = cfg.waveColor, !.theme = cfg.theme ]

ApplyPreset(name) ==
  /\ SetConfig(PresetConfig(config, name))
  /\ UNCHANGED <<startup, forecast>>
  /\ UNCHANGED meshVars
  /\ UNCHANGED terrainLog
  /\ UNCHANGED shoreVars
  /\ UNCHANGED panels

\* App's startup effect resolving: the entry nearest to now is applied.
StartupForecast(waveResp, windResp, now) ==
  /\ startup = "pending"
  /\ LET result == fetchForecastData(waveResp, windResp, now)
     IN  SetConfig(applyForecastToConfig(config,
                     findNearestForecast(result.entries, now)))
  /\ startup' = "done"
  /\ UNCHANGED forecast
  /\ UNCHANGED meshVars
  /\ UNCHANGED terrainLog
  /\ UNCHANGED shoreVars
  /\ UNCHANGED panels

\* The forecast panel's fetch resolving.
PanelFetched(waveResp, windResp, now) ==
  /\ forecast = <<>>
  /\ changes < MaxChanges
  /\ forecast' = fetchForecastData(waveResp, windResp, now).entries
  /\ UNCHANGED <<config, startup, changes>>
  /\ UNCHANGED meshVars
  /\ UNCHANGED terrainLog
  /\ UNCHANGED shoreVars
  /\ UNCHANGED panels

\* A click on an hour button of the forecast panel.
PanelApplyEntry(i) ==
  /\ i \in 1 .. Len(forecast)
  /\ SetConfig(applyForecastToConfig(config, forecast[i]))
  /\ UNCHANGED <<startup, forecast>>
  /\ UNCHANGED meshVars
  /\ UNCHANGED terrainLog
  /\ UNCHANGED shoreVars
  /\ UNCHANGED panels

\* The NOW button of the forecast panel.
PanelApplyNow(now) ==
  /\ Len(forecast) > 0
  /\ SetConfig(applyForecastToConfig(config, findNearestForecast(forecast, now)))
  /\ UNCHANGED <<startup, forecast>>
  /\ UNCHANGED meshVars
  /\ UNCHANGED terrainLog
  /\ UNCHANGED shoreVars
  /\ UNCHANGED panels

Next ==
  \/ Mount
  \/ \E delta \in Deltas : Tick(delta)
  \/ \E key \in MovedSliders : \E v \in SliderValues(key) : UpdateSlider(key, v)
  \/ ToggleTheme
  \/ ToggleAnimateWaves
  \/ ToggleWireframe
  \/ \E c \in PickedColors : PickColor(c)
  \/ \E name \in PresetNames : ApplyPreset(name)
  \/ \E waveResp \in Responses(WaveTexts), windResp \in Responses(WindTexts),
        now \in Dates : StartupForecast(waveResp, windResp, now)
  \/ \E waveResp \in Responses(WaveTexts), windResp \in Responses(WindTexts),
        now \in Dates : PanelFetched(waveResp, windResp, now)
  \/ \E i \in {1, Len(forecast)} : PanelApplyEntry(i)
  \/ \E now \in Dates : PanelApplyNow(now)

Spec == Init /\ [][Next]_vars

\* ------------------------------------------------------------------------
\* The frame callback over the configurations the handlers produce
\* ------------------------------------------------------------------------

\* The forecast entries parsed from the fetched pages.
SampleEntries ==
  UNION { { parseWindguruText(w, d)[i] :
              i \in 1 .. Len(parseWindguruText(w, d)) } :
          w \in WaveTexts, d \in WindTexts }

\* The configurations before any slider is moved: the default, a preset, or
\* a forecast entry applied to the default.
BaseConfigs ==
  {defaultWaveConfig}
    \cup { PresetConfig(defaultWaveConfig, name) : name \in PresetNames }
    \cup { applyForecastToConfig(defaultWaveConfig, e) : e \in SampleEntries }

\* The configurations after the canyon and foam sliders were moved to an end
\* of their range.
EvalConfigs ==
  { [ b EXCEPT !.canyonAmplification = ca, !.canyonFocusWidth = fw,
               !.canyonDepthEffect = de, !.foamThreshold = ft,
               !.foamIntensity = fi ] :
      b \in BaseConfigs,
      ca \in SliderValues("canyonAmplification"),
      fw \in SliderValues("canyonFocusWidth"),
      de \in SliderValues("canyonDepthEffect"),
      ft \in SliderValues("foamThreshold"),
      fi \in SliderValues("foamIntensity") }

\* The configurations after the Chop Intensity slider was moved to zero.
CalmConfigs ==
  { [b EXCEPT !.windChopIntensity = configLimits.windChopIntensity.min] :
      b \in BaseConfigs }

\* The configurations after Animate Waves was switched off and the wave
\* length and direction sliders were moved to an end of their range.
StillConfigs ==
  { [ b EXCEPT !.animateWaves = FALSE, !.waveLength = wl,
               !.waveDirection = wd ] :
      b \in BaseConfigs,
      wl \in SliderValues("waveLength"),
      wd \in SliderValues("waveDirection") }

\* Frame deltas: one 60 Hz frame, and a frame after the tab was hidden.
EvalDeltas == {16, 2500}

InitEval ==
  /\ config \in EvalConfigs \cup CalmConfigs \cup StillConfigs
  /\ startup = "done"
  /\ forecast = <<>>
  /\ meshMounted = TRUE
  /\ timeRef = 0
  /\ originalPositions = GridPositions
  /\ positions = GridPositions
  /\ colors = [i \in VertexIds |-> [r |-> Num(0), g |-> Num(0), b |-> Num(0)]]
  /\ probe = NoFrame
  /\ enabledSum = 0
  /\ ticks = 0
  /\ changes = MaxChanges
  /\ terrainLog = <<>>
  /\ shore = NoShore
  /\ shorePrev = NoShore
  /\ panels = ClosedPanels(FALSE)

NextEval == \E delta \in EvalDeltas : Tick(delta)

SpecEval == InitEval /\ [][NextEval]_vars

\* ------------------------------------------------------------------------
\* Shore: calls of the noise functions and the terrain generators
\* ------------------------------------------------------------------------

\* The arguments explored.
RandomSeeds == {7 * FP, 500 * FP}

NoisePoints == { [x |-> 1500, y |-> -2250, z |-> 100 * FP] }

FbmPoints == { [x |-> 104200, y |-> 1200, octaves |-> 3] }

CliffShapes ==
  { [ width |-> 140 * FP, height |-> 60 * FP, segX |-> 2, segY |-> 2,
      seed |-> 100 * FP, displaceAmount |-> 12 * FP ],
    [ width |-> 140 * FP, height |-> 60 * FP, segX |-> 2, segY |-> 2,
      seed |-> 200 * FP, displaceAmount |-> 12 * FP ] }

RockShapes ==
  { [ baseSize |-> 35 * FP, detail |-> 4, seed |-> 400 * FP,
      flattenBottom |-> 300, stretchX |-> 1400, stretchZ |-> 1200 ],
    [ baseSize |-> 18 * FP, detail |-> 3, seed |-> 425 * FP,
      flattenBottom |-> 400, stretchX |-> 1200, stretchZ |-> 1300 ],
    [ baseSize |-> 14 * FP, detail |-> 3, seed |-> 455 * FP,
      flattenBottom |-> 500, stretchX |-> 1000, stretchZ |-> 1300 ],
    [ baseSize |-> 12 * FP, detail |-> 3, seed |-> 475 * FP,
      flattenBottom |-> 250, stretchX |-> 1600, stretchZ |-> 1100 ] }

BeachShapes ==
  { [width |-> 200 * FP, depth |-> 25 * FP, segX |-> 2, segY |-> 2] }

\* One call returning: its name, arguments and result are logged.
TerrainCall(fn, args, result) ==
  /\ Len(terrainLog) < MaxCalls
  /\ terrainLog' =
       Append(terrainLog, [fn |-> fn, args |-> args, result |-> result])

CallSeededRandom(seed) ==
  /\ TerrainCall("seededRandom", seed, seededRandom(seed))
  /\ UNCHANGED appVars
  /\ UNCHANGED meshVars
  /\ UNCHANGED shoreVars
  /\ UNCHANGED panels

CallNoise3D(p) ==
  /\ TerrainCall("noise3D", p, noise3D(p.x, p.y, p.z))
  /\ UNCHANGED appVars
  /\ UNCHANGED meshVars
  /\ UNCHANGED shoreVars
  /\ UNCHANGED panels

CallFbm(p) ==
  /\ TerrainCall("fbm", p, fbm(p.x, p.y, p.octaves))
  /\ UNCHANGED appVars
  /\ UNCHANGED meshVars
  /\ UNCHANGED shoreVars
  /\ UNCHANGED panels

\* A cliff generator whose seed drifts with the calls made before.
CreateCliffDrifting(c) ==
  /\ TerrainCall("createCliffGeometry", c,
                createCliffGeometry(c.width, c.height, c.segX, c.segY,
                                    c.seed + Len(terrainLog) * FP,
                                    c.displaceAmount))
  /\ UNCHANGED appVars
  /\ UNCHANGED meshVars
  /\ UNCHANGED shoreVars
  /\ UNCHANGED panels

CreateCliff(c) ==
  /\ TerrainCall("createCliffGeometry", c,
                createCliffGeometry(c.width, c.height, c.segX, c.segY, c.seed,
                                    c.displaceAmount))
  /\ UNCHANGED appVars
  /\ UNCHANGED meshVars
  /\ UNCHANGED shoreVars
  /\ UNCHANGED panels

CreateRock(r) ==
  /\ TerrainCall("createRockGeometry", r,
                createRockGeometry(r.baseSize, r.detail, r.seed,
                                   r.flattenBottom, r.stretchX, r.stretchZ))
  /\ UNCHANGED appVars
  /\ UNCHANGED meshVars
  /\ UNCHANGED shoreVars
  /\ UNCHANGED panels

CreateBeach(b) ==
  /\ TerrainCall("createBeachGeometry", b,
                createBeachGeometry(b.width, b.depth, b.segX, b.segY))
  /\ UNCHANGED appVars
  /\ UNCHANGED meshVars
  /\ UNCHANGED shoreVars
  /\ UNCHANGED panels

NextTerrain ==
  \/ \E seed \in RandomSeeds : CallSeededRandom(seed)
  \/ \E p \in NoisePoints : CallNoise3D(p)
  \/ \E p \in FbmPoints : CallFbm(p)
  \/ \E c \in CliffShapes : CreateCliff(c)
  \/ \E r \in RockShapes : CreateRock(r)
  \/ \E b \in BeachShapes : CreateBeach(b)

SpecTerrain == Init /\ [][NextTerrain]_vars

\* ------------------------------------------------------------------------
\* The two copies of seededRandom, called with doubles
\* ------------------------------------------------------------------------

\* The seeds explored: 0, seeds the scene passes, a negative seed, a seed
\* next to pi, and a tiny seed of either sign.
DoubleSeeds ==
  {Num(0), Num(7 * FP), Num(811 * FP), Num(-7 * FP), Num(PiFP), Tiny(1),
   Tiny(-1)}

CallShoreSeededRandom(seed) ==
  /\ TerrainCall("Shore.seededRandom", seed, ShoreSeededRandom(seed))
  /\ UNCHANGED appVars
  /\ UNCHANGED meshVars
  /\ UNCHANGED shoreVars
  /\ UNCHANGED panels

CallLighthouseSeededRandom(seed) ==
  /\ TerrainCall("Lighthouse.seededRandom", seed,
                 LighthouseSeededRandom(seed))
  /\ UNCHANGED appVars
  /\ UNCHANGED meshVars
  /\ UNCHANGED shoreVars
  /\ UNCHANGED panels

NextRandom ==
  \/ \E seed \in DoubleSeeds : CallShoreSeededRandom(seed)
  \/ \E seed \in DoubleSeeds : CallLighthouseSeededRandom(seed)

SpecRandom == Init /\ [][NextRandom]_vars

\* ------------------------------------------------------------------------
\* Forecast: one fetch, one search for the nearest entry
\* ------------------------------------------------------------------------

\* The moments explored: the third of a month in the afternoon, and late on
\* the 29th of a month of 30 days, when the sample forecast runs into the
\* next month.
ForecastDates == Dates \cup { [dow |-> 5, dom |-> 29, hour |-> 23, dim |-> 30] }

\* What the two proxies of CORS_PROXIES do with one request, in order.
ProxyRuns(texts) ==
  { <<a, b>> : a \in ProxyOutcomes(texts), b \in ProxyOutcomes(texts) }

\* A page with two lines equally far from 14h on the 3rd, and a later one.
TiedText ==
  << WaveLine(3, 15, 2000, 290, 11), WaveLine(3, 13, 1500, 285, 10),
     WaveLine(4, 13, 1000, 280, 9) >>

\* The lists handed to findNearestForecast: the empty list, a parsed list
\* with a tie, and the entries of the fetch made before.
NearestSources == {"empty", "tied", "fetched"}

NearestInput(source) ==
  CASE source = "empty" -> <<>>
    [] source = "tied" -> parseWindguruText(TiedText, <<>>)
    [] source = "fetched" -> terrainLog[1].result.entries

CallFetchForecastData(waveRun, windRun, today) ==
  /\ terrainLog = <<>>
  /\ TerrainCall("fetchForecastData",
                 [wave |-> waveRun, wind |-> windRun, today |-> today],
                 fetchForecastData(fetchWithProxy(waveRun),
                                   fetchWithProxy(windRun), today))
  /\ UNCHANGED appVars
  /\ UNCHANGED meshVars
  /\ UNCHANGED shoreVars
  /\ UNCHANGED panels

CallFindNearestForecast(source, now) ==
  /\ \A c \in DOMAIN terrainLog : terrainLog[c].fn = "fetchForecastData"
  /\ source = "fetched" => terrainLog # <<>>
  /\ TerrainCall("findNearestForecast",
                 [entries |-> NearestInput(source), now |-> now],
                 findNearestForecast(NearestInput(source), now))
  /\ UNCHANGED appVars
  /\ UNCHANGED meshVars
  /\ UNCHANGED shoreVars
  /\ UNCHANGED panels

NextForecast ==
  \/ \E waveRun \in ProxyRuns(WaveTexts), windRun \in ProxyRuns(WindTexts),
        today \in ForecastDates :
       CallFetchForecastData(waveRun, windRun, today)
  \/ \E source \in NearestSources, now \in ForecastDates :
       CallFindNearestForecast(source, now)

SpecForecast == Init /\ [][NextForecast]_vars

\* ------------------------------------------------------------------------
\* Configuration: forecast entries and presets applied in turn
\* ------------------------------------------------------------------------

\* A configuration in which every field differs from every preset: all
\* sliders moved, both toggles switched, white picked, the light theme.
CustomConfig ==
  [ waveHeight |-> 11000, wavePeriod |-> 9000, waveDirection |-> 90000,
    waveLength |-> 350000, waveSpeed |-> 1500,
    secondaryWaveHeight |-> 3000, secondaryWavePeriod |-> 6000,
    secondaryWaveDirection |-> 120000,
    windSpeed |-> 33000, windDirection |-> 200000, windChopIntensity |-> 650,
    canyonAmplification |-> 1700, canyonFocusWidth |-> 800,
    canyonDepthEffect |-> 200,
    foamThreshold |-> 350, foamIntensity |-> 450, waterClarity |-> 150,
    wireframe |-> FALSE, animateWaves |-> FALSE, timeScale |-> 2500,
    waveColor |-> [r |-> 255, g |-> 255, b |-> 255], theme |-> "light" ]

\* The configurations App holds when the first handler runs.
StartConfigs == {defaultWaveConfig, CustomConfig}

\* The configuration a handler is given: the start configuration, then
\* what the handler before it handed to onChange.
CurrentConfig(start) ==
  IF terrainLog = <<>> THEN start
  ELSE terrainLog[Len(terrainLog)].result.returned

\* A call of a function from a configuration to a configuration: what it
\* returned, and the object passed in as the call left it (neither function
\* assigns to it).
ConfigCall(fn, start, with, returned) ==
  /\ terrainLog # <<>> => start = defaultWaveConfig
  /\ TerrainCall(fn, [config |-> CurrentConfig(start), with |-> with],
                 [returned |-> returned, config |-> CurrentConfig(start)])

\* ForecastPanel.applyForecast and App's startup effect.
CallApplyForecastToConfig(start, entry) ==
  /\ ConfigCall("applyForecastToConfig", start, entry,
                applyForecastToConfig(CurrentConfig(start), entry))
  /\ UNCHANGED appVars
  /\ UNCHANGED meshVars
  /\ UNCHANGED shoreVars
  /\ UNCHANGED panels

\* ControlPanel.applyPreset.
CallApplyPreset(start, name) ==
  /\ ConfigCall("applyPreset", start, name,
                PresetConfig(CurrentConfig(start), name))
  /\ UNCHANGED appVars
  /\ UNCHANGED meshVars
  /\ UNCHANGED shoreVars
  /\ UNCHANGED panels

NextConfig ==
  \/ \E start \in StartConfigs, entry \in SampleEntries :
       CallApplyForecastToConfig(start, entry)
  \/ \E start \in StartConfigs, name \in PresetNames :
       CallApplyPreset(start, name)

SpecConfig == Init /\ [][NextConfig]_vars

\* ------------------------------------------------------------------------
\* The panels: App's open flags and ForecastPanel's fetches
\* ------------------------------------------------------------------------

\* An open flag left as it is, whatever is requested of the other panel.
OtherPanelKept(open, other) == other

\* if (open) setOther(false): the other panel's flag after a request.
OtherPanelOpen(open, other) == IF open THEN FALSE ELSE other

\* handleResize: isMobile follows the width of the window.
HandleResize(mobile) ==
  /\ panels' = [panels EXCEPT !.isMobile = mobile]
  /\ UNCHANGED appVars
  /\ UNCHANGED meshVars
  /\ UNCHANGED terrainLog
  /\ UNCHANGED shoreVars

\* handleControlPanelOpenChange, which App hands to ControlPanel on mobile;
\* ControlPanel is not rendered while the forecast panel is open there.
HandleControlPanelOpenChange(open) ==
  /\ panels.isMobile
  /\ ~panels.forecastPanelOpen
  /\ panels' =
       [ panels EXCEPT
           !.request = [panel |-> "control", open |-> open],
           !.before = <<panels.controlPanelOpen, panels.forecastPanelOpen>>,
           !.controlPanelOpen = open,
           !.forecastPanelOpen = OtherPanelOpen(open, panels.forecastPanelOpen) ]
  /\ UNCHANGED appVars
  /\ UNCHANGED meshVars
  /\ UNCHANGED terrainLog
  /\ UNCHANGED shoreVars

\* handleForecastPanelOpenChange, which App hands to ForecastPanel on mobile.
HandleForecastPanelOpenChange(open) ==
  /\ panels.isMobile
  /\ panels' =
       [ panels EXCEPT
           !.request = [panel |-> "forecast", open |-> open],
           !.before = <<panels.controlPanelOpen, panels.forecastPanelOpen>>,
           !.forecastPanelOpen = open,
           !.controlPanelOpen = OtherPanelOpen(open, panels.controlPanelOpen) ]
  /\ UNCHANGED appVars
  /\ UNCHANGED meshVars
  /\ UNCHANGED terrainLog
  /\ UNCHANGED shoreVars

\* fetchForecast up to its await: loading set, the error cleared, one more
\* request outstanding.
FetchForecast(p) ==
  [ p EXCEPT !.forecast = [@ EXCEPT !.loading = TRUE, !.error = "null"],
             !.outstanding = @ + 1 ]

\* The Forecast button of the closed panel, and the effect on [isOpen] that
\* runs after it: a fetch when no entries are held.
OpenForecast ==
  /\ ~panels.isOpen
  /\ Len(panels.forecast.entries) = 0 => panels.outstanding < MaxCalls
  /\ panels' = IF Len(panels.forecast.entries) = 0
                 THEN FetchForecast([panels EXCEPT !.isOpen = TRUE])
                 ELSE [panels EXCEPT !.isOpen = TRUE]
  /\ UNCHANGED appVars
  /\ UNCHANGED meshVars
  /\ UNCHANGED terrainLog
  /\ UNCHANGED shoreVars

\* The close button of the open panel; the effect finds isOpen false.
CloseForecast ==
  /\ panels.isOpen
  /\ panels' = [panels EXCEPT !.isOpen = FALSE]
  /\ UNCHANGED appVars
  /\ UNCHANGED meshVars
  /\ UNCHANGED terrainLog
  /\ UNCHANGED shoreVars

\* The Refresh button, rendered by the open panel while it is not loading.
Refresh ==
  /\ panels.isOpen
  /\ ~panels.forecast.loading
  /\ panels.outstanding < MaxCalls
  /\ panels' = FetchForecast(panels)
  /\ UNCHANGED appVars
  /\ UNCHANGED meshVars
  /\ UNCHANGED terrainLog
  /\ UNCHANGED shoreVars

\* What fetchForecast holds after its await: the result of
\* fetchForecastData and the index findIndex gives the entry nearest to now.
Resolved(waveResp, windResp, now) ==
  LET result == fetchForecastData(waveResp, windResp, now)
      nearest == findNearestForecast(result.entries, now)
  IN  [ entries |-> result.entries,
        error |-> result.error,
        idx |-> IF Len(result.entries) = 0 THEN -1
                ELSE (CHOOSE i \in 1 .. Len(result.entries) :
                        /\ result.entries[i] = nearest
                        /\ \A j \in 1 .. (i - 1) : result.entries[j] # nearest)
                     - 1 ]

\* The outcomes of a fetch over the pages and failures of both requests.
FetchResults ==
  { Resolved(waveResp, windResp, now) :
      waveResp \in Responses(WaveTexts), windResp \in Responses(WindTexts),
      now \in Dates }

\* fetchForecast after its await, for one outstanding request: the result
\* replaces the forecast state with loading false, and the entry nearest to
\* now is selected.
FetchResolves(result) ==
  /\ panels.outstanding > 0
  /\ panels' =
       [ panels EXCEPT
           !.forecast = [ entries |-> result.entries, loading |-> FALSE,
                          error |-> result.error ],
           !.selectedIndex = IF result.idx >= 0 THEN result.idx ELSE @,
           !.outstanding = @ - 1 ]
  /\ UNCHANGED appVars
  /\ UNCHANGED meshVars
  /\ UNCHANGED terrainLog
  /\ UNCHANGED shoreVars

InitPanels ==
  /\ config = defaultWaveConfig
  /\ startup = "pending"
  /\ forecast = <<>>
  /\ meshMounted = FALSE
  /\ timeRef = 0
  /\ originalPositions = GridPositions
  /\ positions = GridPositions
  /\ colors = [i \in VertexIds |-> [r |-> Num(0), g |-> Num(0), b |-> Num(0)]]
  /\ probe = NoFrame
  /\ enabledSum = 0
  /\ ticks = 0
  /\ changes = 0
  /\ terrainLog = <<>>
  /\ shore = NoShore
  /\ shorePrev = NoShore
  /\ panels \in {ClosedPanels(mobile) : mobile \in BOOLEAN}

NextPanels ==
  \/ \E mobile \in BOOLEAN : HandleResize(mobile)
  \/ \E open \in BOOLEAN : HandleControlPanelOpenChange(open)
  \/ \E open \in BOOLEAN : HandleForecastPanelOpenChange(open)
  \/ OpenForecast
  \/ CloseForecast
  \/ Refresh
  \/ \E result \in FetchResults : FetchResolves(result)

SpecPanels == InitPanels /\ [][NextPanels]_vars

\* ------------------------------------------------------------------------
\* Shore: renders
\* ------------------------------------------------------------------------

\* The props explored: cliffHeight, cliffSteepness, beachWidth, rockDensity;
\* the first value of each is the default.
ShoreProps ==
  [ cliffHeight : {55 * FP, 70 * FP},
    cliffSteepness : {18 * FP, 25 * FP},
    beachWidth : {100 * FP, 120 * FP},
    rockDensity : {FP, 500, 200} ]

\* useMemo: the stored value while no dependency has changed.
Memo(keep, stored, fresh) == IF keep THEN stored ELSE fresh

\* A dependency array of the main cliff that leaves the steepness out.
MainCliffDepsHeightOnly(props) == <<props.cliffHeight>>

\* The dependency arrays of the memoised geometries.
MainCliffDeps(props) == <<props.cliffHeight, props.cliffSteepness>>

SideCliffDeps(props) == <<props.cliffSteepness>>

RockDeps(props) == <<props.rockDensity>>

BeachDeps(props) == <<props.beachWidth>>

\* One run of the Shore function after the render that produced prev: the
\* memoised values, what the JSX derives from them, and the names of the
\* geometries this run generated anew.  The cliff and beach planes are
\* built with 2 x 2 segments.
Scene(prev, props, themeName) ==
  LET theme == shoreThemes[themeName]
      keepMain == prev.rendered /\ MainCliffDeps(prev.props) = MainCliffDeps(props)
      keepSide == prev.rendered /\ SideCliffDeps(prev.props) = SideCliffDeps(props)
      keepRocks == prev.rendered /\ RockDeps(prev.props) = RockDeps(props)
      keepBeach == prev.rendered /\ BeachDeps(prev.props) = BeachDeps(props)
      sameTheme == prev.rendered /\ prev.theme = themeName
      rocks == Memo(keepRocks, prev.waterRocks, waterRocks(props.rockDensity))
  IN  [ rendered |-> TRUE,
        props |-> props,
        theme |-> themeName,
        mainCliffGeo |->
          Memo(keepMain, prev.mainCliffGeo,
               createCliffGeometry(420 * FP, props.cliffHeight, 2, 2, 0,
                                   props.cliffSteepness)),
        cliffTopGeo |-> Memo(prev.rendered, prev.cliffTopGeo, cliffTopGeo),
        leftCliffGeo |->
          Memo(keepSide, prev.leftCliffGeo,
               createCliffGeometry(140 * FP, 60 * FP, 2, 2, 100 * FP,
                                   Mul(props.cliffSteepness, 800))),
        rightCliffGeo |->
          Memo(keepSide, prev.rightCliffGeo,
               createCliffGeometry(140 * FP, 60 * FP, 2, 2, 200 * FP,
                                   Mul(props.cliffSteepness, 800))),
        fortMainRock |->
          Memo(prev.rendered, prev.fortMainRock,
               createRockGeometry(35 * FP, 4, 400 * FP, 300, 1400, 1200)),
        fortUpperRock |->
          Memo(prev.rendered, prev.fortUpperRock,
               createRockGeometry(25 * FP, 3, 410 * FP, 500, 1500, 1000)),
        fortConnectorRocks |->
          Memo(prev.rendered, prev.fortConnectorRocks, fortConnectorRocks),
        waterRocks |-> rocks,
        waterRockShadows |->
          [n \in DOMAIN rocks |-> WaterRockShadow(rocks, n - 1)],
        cliffOutcrops |->
          Memo(keepRocks, prev.cliffOutcrops,
               cliffOutcrops(props.rockDensity)),
        beachGeo |->
          Memo(keepBeach, prev.beachGeo,
               createBeachGeometry(props.beachWidth, 25 * FP, 2, 2)),
        strataLayers |->
          Memo(sameTheme, prev.strataLayers, strataLayers(theme)),
        beachRocks |-> BeachRocks(props.rockDensity, props.beachWidth),
        colors |-> theme,
        regenerated |->
          (IF keepMain THEN {} ELSE {"mainCliffGeo"})
          \cup (IF keepSide THEN {} ELSE {"leftCliffGeo", "rightCliffGeo"})
          \cup (IF keepRocks THEN {} ELSE {"waterRocks", "cliffOutcrops"})
          \cup (IF keepBeach THEN {} ELSE {"beachGeo"}) ]

\* The props that differ between two renders.
ChangedProps(a, b) == {k \in DOMAIN a : a[k] # b[k]}

\* React runs Shore with the current config and some props.  The renders
\* explored change at most one prop at a time.
ShoreRender(props) ==
  /\ shore.rendered => Cardinality(ChangedProps(shore.props, props)) <= 1
  /\ shore' = Scene(shore, props, config.theme)
  /\ shorePrev' = IF shore.rendered THEN [shore EXCEPT !.regenerated = {}]
                                   ELSE shore
  /\ UNCHANGED appVars
  /\ UNCHANGED meshVars
  /\ UNCHANGED terrainLog
  /\ UNCHANGED panels

NextShore ==
  \/ ToggleTheme
  \/ \E props \in ShoreProps : ShoreRender(props)

SpecShore == Init /\ [][NextShore]_vars

\* ------------------------------------------------------------------------
\* Properties of the frame callback
\* ------------------------------------------------------------------------

\* The buffers a frame with inputs (cfg, time) leaves over the base grid.
HeightsOf(cfg, time) ==
  [i \in VertexIds |->
     EvalVertex(cfg, FrameConstants(cfg), time,
                GridPositions[i].x, GridPositions[i].z).totalHeight]

ColorsOf(cfg, time) ==
  WriteColors(Evaluate(cfg, time, GridPositions))

\* C1: evaluate is a function of (configuration, time, base grid) alone:
\* after every frame the height and colour buffers are exactly what those
\* inputs determine, whatever the buffers held before and whatever frames
\* ran in between.
C1_Deterministic ==
  probe.valid =>
    /\ \A i \in VertexIds :
         positions[i].y = HeightsOf(probe.config, probe.time)[i]
    /\ colors = ColorsOf(probe.config, probe.time)

\* A later frame, run over buffers that an earlier frame filled with other
\* heights, under a configuration changed since the start.
C1_Witness ==
  /\ ticks >= 2
  /\ changes >= 1
  /\ probe.valid
  /\ probe.time > 0
  /\ \E i \in VertexIds :
       /\ positions[i].y # 0
       /\ positions[i].y # HeightsOf(defaultWaveConfig, 16)[i]

\* C2: the time accumulator starts at zero, is never negative and never
\* decreases.
C2_Monotone ==
  /\ timeRef = 0
  /\ [](timeRef >= 0)
  /\ [][timeRef' >= timeRef]_vars

\* The accumulator has advanced over two animated frames.
C2_Witness ==
  /\ ticks >= 2
  /\ timeRef > 16

C4_BaseGridFixed ==
  /\ originalPositions = GridPositions
  /\ \A i \in VertexIds :
       /\ positions[i].x = GridPositions[i].x
       /\ positions[i].z = GridPositions[i].z

\* A frame has written a non-zero height.
C4_Witness ==
  /\ probe.valid
  /\ \E i \in VertexIds : positions[i].y # 0

\* C6: the foam amount of every vertex lies in [0, 1] whenever foamIntensity
\* is in [0, 1], for every steepness, total height and foamThreshold.
C6_FoamInUnit ==
  (probe.valid /\ InUnitRange(probe.config.foamIntensity)) =>
    \A i \in VertexIds : InUnit(probe.out[i].foamAmount)

\* C7: every colour component written lies in [0, 1], for every base colour
\* with components in [0, 1], waterClarity in [0, 1] and foam amount in
\* [0, 1].
C7_ColoursInUnit ==
  ( /\ probe.valid
    /\ InUnitRange(probe.config.waterClarity)
    /\ \A i \in VertexIds : InUnit(probe.out[i].foamAmount) ) =>
    \A i \in VertexIds :
      InUnit(colors[i].r) /\ InUnit(colors[i].g) /\ InUnit(colors[i].b)

\* The canyon parameters are within the limits of their sliders.
WithinCanyonLimits(cfg) ==
  /\ cfg.canyonAmplification >= FP
  /\ cfg.canyonFocusWidth > 0
  /\ InUnitRange(cfg.canyonDepthEffect)

FrontEdge == (PlaneSize * FP) \div 2

\* C8: within the UI limits, canyonFactor >= 1 and depthFactor >= 1 at every
\* vertex; depthFactor is 1 on the back edge (z = -150) and
\* 1 + canyonDepthEffect on the front edge (z = 150).
C8_FactorsAtLeastOne ==
  (probe.valid /\ WithinCanyonLimits(probe.config)) =>
    \A i \in VertexIds :
      /\ probe.out[i].canyonFactor >= FP
      /\ probe.out[i].depthFactor >= FP
      /\ GridPositions[i].z = -FrontEdge => probe.out[i].depthFactor = FP
      /\ GridPositions[i].z = FrontEdge =>
           probe.out[i].depthFactor = FP + probe.config.canyonDepthEffect

\* A frame under full amplification and depth effect: the canyon axis is
\* amplified, and the front edge is deeper than the back edge.
C8_Witness ==
  /\ probe.valid
  /\ WithinCanyonLimits(probe.config)
  /\ probe.config.canyonDepthEffect = FP
  /\ \E i \in VertexIds :
       GridPositions[i].x = 0 /\ probe.out[i].canyonFactor > FP
  /\ \E i \in VertexIds :
       GridPositions[i].z = FrontEdge /\ probe.out[i].depthFactor = 2 * FP
  /\ \E i \in VertexIds :
       GridPositions[i].z = -FrontEdge /\ probe.out[i].depthFactor = FP

\* C9: the configuration handed to evaluate satisfies the core's
\* preconditions after any sequence of slider updates, toggles, preset
\* applications and forecast applications.
C9_PreconditionsKept == probe.valid => Preconditions(probe.config)

\* The vertices of a frame at which the foam branch runs.
FoamBranchTaken(cfg, out) ==
  \E i \in VertexIds : out[i].steepness > cfg.foamThreshold * 2

\* C10: under the stated preconditions no division of evaluate has a zero
\* divisor and every height and colour written is finite.
C10_NoZeroDivisor ==
  (probe.valid /\ Preconditions(probe.config)) =>
    /\ probe.config.waveLength # 0
    /\ Mul(probe.config.waveLength, 600) # 0
    /\ Mul(probe.config.canyonFocusWidth, probe.config.canyonFocusWidth) # 0
    /\ FoamBranchTaken(probe.config, probe.out) =>
         probe.config.waveHeight * 2 # 0
    /\ \A i \in VertexIds :
         IsFinite(colors[i].r) /\ IsFinite(colors[i].g) /\ IsFinite(colors[i].b)

\* C11: with windChopIntensity 0 the wind-chop height and the chop slope are
\* exactly 0 at every vertex, for every time and windSpeed, and the total
\* height is primary + secondary only.
C11_ChopSuppressed ==
  (probe.valid /\ probe.config.windChopIntensity = 0) =>
    \A i \in VertexIds :
      /\ probe.out[i].windChop = 0
      /\ probe.out[i].chopSlope = 0
      /\ probe.out[i].totalHeight =
           probe.out[i].primaryWave + probe.out[i].secondaryWave
      /\ positions[i].y =
           probe.out[i].primaryWave + probe.out[i].secondaryWave

\* A frame at a later time, with wind blowing and the chop slider at zero,
\* that still moved the surface.
C11_Witness ==
  /\ probe.valid
  /\ probe.config.windChopIntensity = 0
  /\ probe.config.windSpeed > 0
  /\ probe.time > 0
  /\ \E i \in VertexIds : positions[i].y # 0

\* C12: on the canyon axis (x = 0) canyonFactor equals canyonAmplification;
\* for canyonAmplification >= 1 it never increases as |x| grows and stays
\* between 1 and canyonAmplification.
C12_CanyonProfile ==
  (probe.valid /\ probe.config.canyonFocusWidth > 0) =>
    \A i \in VertexIds :
      /\ GridPositions[i].x = 0 =>
           probe.out[i].canyonFactor = probe.config.canyonAmplification
      /\ probe.config.canyonAmplification >= FP =>
           /\ probe.out[i].canyonFactor >= FP
           /\ probe.out[i].canyonFactor <= probe.config.canyonAmplification
           /\ \A j \in VertexIds :
                Abs(GridPositions[i].x) <= Abs(GridPositions[j].x) =>
                  probe.out[i].canyonFactor >= probe.out[j].canyonFactor

\* A frame with an amplified axis and a strictly weaker, still amplified,
\* side.
C12_Witness ==
  /\ probe.valid
  /\ probe.config.canyonAmplification > FP
  /\ \E i, j \in VertexIds :
       /\ GridPositions[i].x = 0
       /\ GridPositions[j].x # 0
       /\ probe.out[i].canyonFactor = probe.config.canyonAmplification
       /\ probe.out[j].canyonFactor < probe.out[i].canyonFactor
       /\ probe.out[j].canyonFactor > FP

\* C13: at time 0 and the vertex (0, 0) the primary phase is 0 and the
\* primary wave contributes no height, whatever the wave height, length,
\* period, direction and the canyon and depth parameters.
C13_ZeroPhase ==
  probe.valid =>
    /\ \A i \in VertexIds :
         ( /\ probe.time = 0
           /\ GridPositions[i].x = 0
           /\ GridPositions[i].z = 0 ) =>
           /\ probe.out[i].primaryPhase = 0
           /\ probe.out[i].primaryWave = 0
    /\ LET origin == EvalVertex(probe.config, FrameConstants(probe.config),
                                0, 0, 0)
       IN  origin.primaryPhase = 0 /\ origin.primaryWave = 0

\* A frame at time 0 over a grid with a vertex at the origin, under a
\* configuration with waves of positive height travelling obliquely.
C13_Witness ==
  /\ probe.valid
  /\ probe.time = 0
  /\ probe.config.waveHeight > 0
  /\ probe.config.waveDirection # 0
  /\ \E i \in VertexIds :
       /\ GridPositions[i].x = 0
       /\ GridPositions[i].z = 0
       /\ probe.out[i].primaryPhase = 0
  /\ \E i \in VertexIds : probe.out[i].primaryWave # 0

\* ------------------------------------------------------------------------
\* Properties of the noise functions and the terrain generators
\* ------------------------------------------------------------------------

RockCalls ==
  { i \in 1 .. Len(terrainLog) : terrainLog[i].fn = "createRockGeometry" }

\* C14: every rock vertex whose base height y is negative ends with a height
\* of strictly smaller magnitude; the flatten factor is applied to the
\* vertices with y < 0 only, the others keep a vertical factor of exactly 1.
C14_RockGrounded ==
  \A c \in RockCalls :
    LET r == terrainLog[c].args
        base == IcosahedronGeometry(r.baseSize)
        out == terrainLog[c].result
    IN  \A i \in DOMAIN base :
          LET displacement == RockDisplacement(base[i], r.seed)
          IN  /\ base[i].y < 0 =>
                   /\ Abs(out[i].y) < Abs(base[i].y)
                   /\ out[i].y =
                        Mul(Mul(Mul(base[i].y, r.flattenBottom), displacement),
                            850)
              /\ base[i].y >= 0 =>
                   out[i].y = Mul(Mul(base[i].y, displacement), 850)

\* The least flattened rock of the scene (0.5) has been generated, with a
\* lower vertex that the noise pushed outwards and an upper vertex that
\* kept a non-zero height.
C14_Witness ==
  \E c \in RockCalls :
    LET r == terrainLog[c].args
        base == IcosahedronGeometry(r.baseSize)
        out == terrainLog[c].result
    IN  /\ r.flattenBottom = 500
        /\ \E i \in DOMAIN base :
             /\ base[i].y < 0
             /\ RockDisplacement(base[i], r.seed) > FP
             /\ out[i].y < 0
        /\ \E i \in DOMAIN base : base[i].y > 0 /\ out[i].y > 0

\* ------------------------------------------------------------------------
\* Properties of the Shore scene
\* ------------------------------------------------------------------------

\* Everything of a render that is not a colour: the vertex buffers and the
\* position, rotation and scale of every placed piece.
ShoreGeometry(s) ==
  [ mainCliffGeo |-> s.mainCliffGeo,
    cliffTopGeo |-> s.cliffTopGeo,
    leftCliffGeo |-> s.leftCliffGeo,
    rightCliffGeo |-> s.rightCliffGeo,
    fortMainRock |-> s.fortMainRock,
    fortUpperRock |-> s.fortUpperRock,
    fortConnectorRocks |-> s.fortConnectorRocks,
    waterRocks |-> s.waterRocks,
    waterRockShadows |-> s.waterRockShadows,
    cliffOutcrops |-> s.cliffOutcrops,
    beachGeo |-> s.beachGeo,
    beachRocks |-> s.beachRocks,
    strataLayers |->
      [ n \in DOMAIN s.strataLayers |->
          [ y |-> s.strataLayers[n].y,
            thickness |-> s.strataLayers[n].thickness ] ] ]

\* What a first render of Shore produces, for every props and theme explored.
FirstRenders ==
  [ props \in ShoreProps |->
      [th \in Themes |-> Scene(NoShore, props, th)] ]

\* C15: whatever renders and theme switches came before, the geometry of the
\* rendered scene (every vertex buffer, every position, rotation and scale,
\* the height and thickness of every strata band) is the geometry a first
\* render produces from the same cliffHeight, cliffSteepness, beachWidth and
\* rockDensity under the dark theme and under the light theme alike: the
\* theme reaches colours only.
C15_ThemeKeepsGeometry ==
  shore.rendered =>
    \A th \in Themes :
      ShoreGeometry(shore) = ShoreGeometry(FirstRenders[shore.props][th])

\* A theme switch between two renders with the same props: the colours
\* changed, strata colours included, and rocks are placed.
C15_Witness ==
  /\ shore.rendered
  /\ shorePrev.rendered
  /\ shore.props = shorePrev.props
  /\ shore.theme # shorePrev.theme
  /\ shore.colors # shorePrev.colors
  /\ shore.strataLayers # shorePrev.strataLayers
  /\ Len(shore.waterRocks) > 0

\* a is an initial segment of b.
IsPrefix(a, b) == Len(a) <= Len(b) /\ SubSeq(b, 1, Len(a)) = a

\* C16: between two renders the lists of placed water-level rocks, of their
\* shadow discs and of cliff outcrops only grow or shrink at the end: the
\* list built for the lower rockDensity is an initial segment of the list
\* built for the higher one, so no candidate of a lower index changes
\* between placed and skipped, or changes its position, scale or rotation.
C16_PlacementStable ==
  (shore.rendered /\ shorePrev.rendered) =>
    LET lo == IF shorePrev.props.rockDensity <= shore.props.rockDensity
              THEN shorePrev ELSE shore
        hi == IF shorePrev.props.rockDensity <= shore.props.rockDensity
              THEN shore ELSE shorePrev
    IN  /\ IsPrefix(lo.waterRocks, hi.waterRocks)
        /\ IsPrefix(lo.waterRockShadows, hi.waterRockShadows)
        /\ IsPrefix(lo.cliffOutcrops, hi.cliffOutcrops)

\* rockDensity was raised between the last two renders; rocks and outcrops
\* were added, behind lower candidates of which some were skipped.
C16_Witness ==
  /\ shore.rendered
  /\ shorePrev.rendered
  /\ shorePrev.props.rockDensity < shore.props.rockDensity
  /\ Len(shorePrev.waterRocks) > 0
  /\ Len(shorePrev.waterRocks)
       < BaseCount(30, shorePrev.props.rockDensity)
  /\ Len(shorePrev.waterRocks) < Len(shore.waterRocks)
  /\ Len(shorePrev.cliffOutcrops) > 0
  /\ Len(shorePrev.cliffOutcrops) < Len(shore.cliffOutcrops)

\* C17: no placed water-level rock has x strictly between -130 and -30, no
\* placed outcrop has x strictly between -125 and -35, and the placed lists
\* hold exactly one entry per candidate whose x is outside the interval:
\* every candidate inside it is skipped and leaves nothing behind.
C17_FortFootprintClear ==
  shore.rendered =>
    /\ \A n \in DOMAIN shore.waterRocks :
         ~(shore.waterRocks[n].position[1] > -130 * FP
           /\ shore.waterRocks[n].position[1] < -30 * FP)
    /\ \A n \in DOMAIN shore.cliffOutcrops :
         ~(shore.cliffOutcrops[n].position[1] > -125 * FP
           /\ shore.cliffOutcrops[n].position[1] < -35 * FP)
    /\ Len(shore.waterRocks) =
         Cardinality({ i \in 0 .. BaseCount(30, shore.props.rockDensity) - 1 :
                         ~(WaterRockX(i) > -130 * FP
                           /\ WaterRockX(i) < -30 * FP) })
    /\ Len(shore.cliffOutcrops) =
         Cardinality({ i \in 0 .. BaseCount(35, shore.props.rockDensity) - 1 :
                         ~(OutcropX(i) > -125 * FP
                           /\ OutcropX(i) < -35 * FP) })
    /\ Len(shore.waterRockShadows) = Len(shore.waterRocks)

\* A render in which candidates of both loops fell on the fort and were
\* skipped while others were placed.
C17_Witness ==
  /\ shore.rendered
  /\ Len(shore.waterRocks) > 0
  /\ Len(shore.waterRocks) < BaseCount(30, shore.props.rockDensity)
  /\ Len(shore.cliffOutcrops) > 0
  /\ Len(shore.cliffOutcrops) < BaseCount(35, shore.props.rockDensity)

\* ------------------------------------------------------------------------
\* Properties of seededRandom
\* ------------------------------------------------------------------------

\* r is a double with 0 <= r < 1.
InHalfOpenUnit(r) ==
  \/ r.k = "num" /\ r.v >= 0 /\ r.v < FP
  \/ r.k = "tiny" /\ r.v > 0

\* C18: every call of either copy of seededRandom with a finite seed returns
\* r with 0 <= r < 1, and a call with seed 0 returns exactly 0.
C18_UnitRange ==
  \A c \in DOMAIN terrainLog :
    terrainLog[c].fn \in {"Shore.seededRandom", "Lighthouse.seededRandom"} =>
      /\ InHalfOpenUnit(terrainLog[c].result)
      /\ terrainLog[c].args = Num(0) => terrainLog[c].result = Num(0)

\* ------------------------------------------------------------------------
\* Properties of the forecast functions
\* ------------------------------------------------------------------------

FetchCalls ==
  {c \in DOMAIN terrainLog : terrainLog[c].fn = "fetchForecastData"}

\* A request some proxy answered with a body.
Delivered(run) == \E n \in DOMAIN run : run[n].kind = "ok"

\* The body of the first proxy that delivered one.
BodyOf(run) ==
  run[CHOOSE n \in DOMAIN run :
        run[n].kind = "ok" /\ \A k \in 1 .. n - 1 : run[k].kind # "ok"].text

\* C19: whatever the proxies do with the wave and the wind request,
\* fetchForecastData resolves with an entries list and an error field; the
\* list is never empty; when both requests delivered a body and lines of it
\* parse, the entries are the parsed ones and error is null; in every other
\* case the entries are the generated sample forecast and error is a message.
C19_FetchAlwaysResolves ==
  \A c \in FetchCalls :
    LET a == terrainLog[c].args
        r == terrainLog[c].result
        live == /\ Delivered(a.wave)
                /\ Delivered(a.wind)
                /\ Len(parseWindguruText(BodyOf(a.wave), BodyOf(a.wind))) > 0
    IN  /\ DOMAIN r = {"entries", "error"}
        /\ Len(r.entries) > 0
        /\ (r.error = "null") <=> live
        /\ live => r.entries = parseWindguruText(BodyOf(a.wave), BodyOf(a.wind))
        /\ ~live => /\ r.entries = generateFallbackForecast(a.today)
                    /\ r.error # "null"

\* The wave request got a page that parses from the second proxy after the
\* first threw, the wind request failed at both proxies: sample data and a
\* message came back.
C19_Witness ==
  \E c \in FetchCalls :
    LET a == terrainLog[c].args
        r == terrainLog[c].result
    IN  /\ a.wave[1].kind = "throws"
        /\ a.wave[2].kind = "ok"
        /\ Len(parseWindguruText(a.wave[2].text, <<>>)) > 0
        /\ a.wind[1].kind = "notOk"
        /\ a.wind[2].kind = "bodyThrows"
        /\ Len(r.entries) = 56
        /\ r.error = "Using sample data (live fetch unavailable)"

NearestCalls ==
  {c \in DOMAIN terrainLog : terrainLog[c].fn = "findNearestForecast"}

\* The distance in hours between entry i and now.
HoursApart(entries, i, now) ==
  Abs(EntryTime(entries[i], now) - NowTime(now))

\* The hours from now to entry n of a sample forecast generated now,
\* counted from the day and hour it was generated for.
SampleHoursApart(n, now) ==
  Abs(((n - 1) \div 8) * 24 + ((n - 1) % 8) * 3 - now.hour)

\* C20: findNearestForecast returns null exactly for the empty list; for
\* any other list it returns the first entry in list order to which no
\* entry is strictly nearer in time to now.  For a sample forecast
\* generated at the same moment that is the first entry nearest to now by
\* the day and hour it was generated for, across a month's end as well.
C20_NearestEntry ==
  \A c \in NearestCalls :
    LET entries == terrainLog[c].args.entries
        now == terrainLog[c].args.now
        r == terrainLog[c].result
    IN  /\ (r = Null) <=> (Len(entries) = 0)
        /\ Len(entries) > 0 =>
             \E i \in 1 .. Len(entries) :
               /\ r = entries[i]
               /\ \A j \in 1 .. Len(entries) :
                    /\ HoursApart(entries, i, now) <= HoursApart(entries, j, now)
                    /\ j < i =>
                         HoursApart(entries, i, now) < HoursApart(entries, j, now)
        /\ (Len(entries) = 56 /\ entries = generateFallbackForecast(now)) =>
             \E i \in 1 .. 56 :
               /\ r = entries[i]
               /\ \A j \in 1 .. 56 :
                    SampleHoursApart(i, now) <= SampleHoursApart(j, now)

\* A list in which two entries are equally near to now and nearer than the
\* rest: the earlier one in the list was returned.
C20_Witness ==
  \E c \in NearestCalls :
    LET entries == terrainLog[c].args.entries
        now == terrainLog[c].args.now
    IN  /\ Len(entries) = 3
        /\ HoursApart(entries, 1, now) = HoursApart(entries, 2, now)
        /\ HoursApart(entries, 1, now) < HoursApart(entries, 3, now)
        /\ entries[1] # entries[2]
        /\ terrainLog[c].result = entries[1]

\* ------------------------------------------------------------------------
\* Properties of the configuration handlers
\* ------------------------------------------------------------------------

\* The fields applyForecastToConfig assigns.
ForecastFields ==
  {"waveHeight", "wavePeriod", "waveDirection", "windSpeed", "windDirection",
   "windChopIntensity"}

\* The fields applyPreset takes from the current configuration.
DisplayFields == {"wireframe", "animateWaves", "waveColor", "theme"}

\* C21: applyForecastToConfig returns a configuration with the fields of
\* its input, equal to the input in every field but waveHeight, wavePeriod,
\* waveDirection, windSpeed, windDirection and windChopIntensity, and the
\* configuration passed in is after the call what it was before.
C21_ForecastFrame ==
  \A c \in DOMAIN terrainLog :
    terrainLog[c].fn = "applyForecastToConfig" =>
      LET before == terrainLog[c].args.config
          after == terrainLog[c].result.config
          out == terrainLog[c].result.returned
      IN  /\ DOMAIN out = DOMAIN before
          /\ \A k \in DOMAIN before \ ForecastFields : out[k] = before[k]
          /\ after = before

\* An entry applied to a configuration whose other fields all differ from
\* the defaults: the six fields changed.
C21_Witness ==
  \E c \in DOMAIN terrainLog :
    /\ terrainLog[c].fn = "applyForecastToConfig"
    /\ \A k \in DOMAIN defaultWaveConfig \ ForecastFields :
         terrainLog[c].args.config[k] # defaultWaveConfig[k]
    /\ \A k \in ForecastFields :
         terrainLog[c].result.returned[k] # terrainLog[c].args.config[k]

\* C28: applyPreset hands over a configuration that has the preset's value
\* in every field but wireframe, animateWaves, waveColor and theme, and the
\* current value in those four; applying the same preset to the result
\* gives the result again.
C28_PresetFrame ==
  \A c \in DOMAIN terrainLog :
    terrainLog[c].fn = "applyPreset" =>
      LET before == terrainLog[c].args.config
          name == terrainLog[c].args.with
          out == terrainLog[c].result.returned
      IN  /\ DOMAIN out = DOMAIN before
          /\ \A k \in DOMAIN out \ DisplayFields : out[k] = wavePresets[name][k]
          /\ \A k \in DisplayFields : out[k] = before[k]
          /\ (c > 1 /\ terrainLog[c - 1].fn = "applyPreset"
              /\ terrainLog[c - 1].args.with = name) =>
               out = terrainLog[c - 1].result.returned

\* A preset applied twice in a row to a configuration that differed from
\* the preset in every field.
C28_Witness ==
  \E c \in DOMAIN terrainLog :
    /\ c > 1
    /\ terrainLog[c].fn = "applyPreset"
    /\ terrainLog[c - 1].fn = "applyPreset"
    /\ terrainLog[c].args.with = terrainLog[c - 1].args.with
    /\ \A k \in DOMAIN CustomConfig :
         terrainLog[c - 1].args.config[k]
           # wavePresets[terrainLog[c].args.with][k]
    /\ terrainLog[c].result.returned.theme = "light"

\* The memoised terrain geometries and the props that determine each.
Determining ==
  [ mainCliffGeo |-> {"cliffHeight", "cliffSteepness"},
    leftCliffGeo |-> {"cliffSteepness"},
    rightCliffGeo |-> {"cliffSteepness"},
    waterRocks |-> {"rockDensity"},
    cliffOutcrops |-> {"rockDensity"},
    beachGeo |-> {"beachWidth"} ]

\* C22: a render after another generates a memoised terrain geometry anew
\* exactly when one of its determining props differs from the render
\* before, and after every render each of the six geometries in use equals
\* what a first render generates from the current props.
C22_CacheNeverStale ==
  shore.rendered =>
    /\ \A g \in DOMAIN Determining :
         shore[g] = FirstRenders[shore.props][shore.theme][g]
    /\ shorePrev.rendered =>
         \A g \in DOMAIN Determining :
           (g \in shore.regenerated)
             <=> (\E k \in Determining[g] : shore.props[k] # shorePrev.props[k])

\* A render after cliffSteepness alone changed: the three cliffs were
\* generated anew and differ from before, rocks and beach were kept.
C22_Witness ==
  /\ shore.rendered
  /\ shorePrev.rendered
  /\ ChangedProps(shore.props, shorePrev.props) = {"cliffSteepness"}
  /\ shore.regenerated = {"mainCliffGeo", "leftCliffGeo", "rightCliffGeo"}
  /\ shore.mainCliffGeo # shorePrev.mainCliffGeo
  /\ shore.leftCliffGeo # shorePrev.leftCliffGeo
  /\ shore.waterRocks = shorePrev.waterRocks
  /\ Len(shore.waterRocks) > 0

\* ------------------------------------------------------------------------
\* Foam properties
\* ------------------------------------------------------------------------

\* C23: at every vertex the steepness used for foam is
\* (|primarySlope| + |secondarySlope| + |chopSlope|) / 1.5.
C23_SteepnessSumsMagnitudes ==
  probe.valid =>
    \A i \in VertexIds :
      probe.out[i].steepness
        = ((Abs(probe.out[i].primarySlope) + Abs(probe.out[i].secondarySlope)
            + Abs(probe.out[i].chopSlope)) * FP) \div gridSpacing

\* C24: a vertex whose steepness does not exceed foamThreshold * 2 has foam
\* amount exactly 0, whatever its total height and foamIntensity, and the
\* colour written for it is the clarity-tinted base colour.
C24_NoFoamBelowThreshold ==
  probe.valid =>
    \A i \in VertexIds :
      probe.out[i].steepness <= probe.config.foamThreshold * 2 =>
        LET turbid == Turbid(BaseColor(probe.config.waveColor),
                             probe.config.waterClarity)
        IN  /\ probe.out[i].foamAmount = Num(0)
            /\ colors[i] = [r |-> Num(turbid.r), g |-> Num(turbid.g),
                            b |-> Num(turbid.b)]

\* A frame with a vertex on a crest (positive total height, so a positive
\* crest bonus at full foamIntensity) whose steepness is positive but not
\* above the threshold, next to a vertex that does carry foam.
C24_Witness ==
  /\ probe.valid
  /\ probe.config.foamIntensity = FP
  /\ probe.config.waveHeight > 0
  /\ \E i \in VertexIds :
       /\ probe.out[i].steepness > 0
       /\ probe.out[i].steepness <= probe.config.foamThreshold * 2
       /\ probe.out[i].totalHeight > 0
       /\ probe.out[i].foamAmount = Num(0)
  /\ \E j \in VertexIds :
       /\ probe.out[j].steepness > probe.config.foamThreshold * 2
       /\ probe.out[j].foamAmount # Num(0)

\* ------------------------------------------------------------------------
\* Cliff displacement property
\* ------------------------------------------------------------------------

\* The sub-weights the displacement terms are said to carry.
StatedWeights ==
  [ large |-> FP, medium |-> 400, small |-> 150, overhang |-> 500,
    erosion |-> 300, cracks |-> 150 ]

\* A term scaled by displaceAmount times its stated sub-weight.
StatedTerm(name, v, height, c) ==
  Mul(CliffTerm(name, v.x, v.y, height, c.seed),
      Mul(c.displaceAmount, StatedWeights[name]))

\* C25: every vertex of a generated cliff is displaced by
\* large + medium + small - overhang + erosion + cracks, each term scaled
\* by displaceAmount times its sub-weight 1.0, 0.4, 0.15, 0.5 (overhang),
\* 0.3 (erosion), 0.15; the overhang term is non-zero only above
\* 0.3 * height and the erosion term only below the lowest 0.4 of the cliff.
C25_CliffDisplacement ==
  \A n \in DOMAIN terrainLog :
    terrainLog[n].fn = "createCliffGeometry" =>
      LET c == terrainLog[n].args
          geo == terrainLog[n].result
      IN  \A i \in DOMAIN geo :
            /\ geo[i].z = StatedTerm("large", geo[i], c.height, c)
                          + StatedTerm("medium", geo[i], c.height, c)
                          + StatedTerm("small", geo[i], c.height, c)
                          - StatedTerm("overhang", geo[i], c.height, c)
                          + StatedTerm("erosion", geo[i], c.height, c)
                          + StatedTerm("cracks", geo[i], c.height, c)
            /\ CliffTerm("overhang", geo[i].x, geo[i].y, c.height, c.seed) # 0
                 => geo[i].y > Mul(c.height, 300)
            /\ CliffTerm("erosion", geo[i].x, geo[i].y, c.height, c.seed) # 0
                 => geo[i].y + c.height \div 2 < Mul(c.height, 400)

\* ------------------------------------------------------------------------
\* Panel properties
\* ------------------------------------------------------------------------

\* C26: the control panel and the forecast panel are never both open in
\* App's state; a request that opens a panel leaves the other closed, and a
\* request that closes a panel leaves the other's flag as it was.
C26_NeverBothOpen ==
  /\ ~(panels.controlPanelOpen /\ panels.forecastPanelOpen)
  /\ panels.request.panel = "control" =>
       /\ panels.controlPanelOpen = panels.request.open
       /\ panels.request.open => ~panels.forecastPanelOpen
       /\ ~panels.request.open => panels.forecastPanelOpen = panels.before[2]
  /\ panels.request.panel = "forecast" =>
       /\ panels.forecastPanelOpen = panels.request.open
       /\ panels.request.open => ~panels.controlPanelOpen
       /\ ~panels.request.open => panels.controlPanelOpen = panels.before[1]

\* The forecast panel was opened while the control panel was open: the
\* control panel is closed now.
C26_Witness ==
  /\ panels.request = [panel |-> "forecast", open |-> TRUE]
  /\ panels.before = <<TRUE, FALSE>>
  /\ panels.forecastPanelOpen
  /\ ~panels.controlPanelOpen

\* C27: loading is true exactly while a fetchForecast call of the panel has
\* not resolved.
C27_LoadingWhileOutstanding ==
  panels.forecast.loading <=> panels.outstanding > 0

\* ------------------------------------------------------------------------
\* Parser property
\* ------------------------------------------------------------------------

\* C29: every entry parsed from the two pages carries the wind speed and
\* wind direction of the wind row with its datetime key whenever such a row
\* was parsed, a parsed 0 included; 10 knots and 45 degrees are used only
\* when no wind row has the key.
C29_WindOfSameKey ==
  \A n \in DOMAIN terrainLog :
    ( /\ terrainLog[n].fn = "fetchForecastData"
      /\ terrainLog[n].result.error = "null" ) =>
      LET windText == fetchWithProxy(terrainLog[n].args.wind).text
          entries == terrainLog[n].result.entries
      IN  \A i \in DOMAIN entries :
            LET windData == WindLookup(windText, entries[i].datetime)
            IN  /\ entries[i].windSpeed
                     = IF windData.found THEN windData.windSpeed * FP
                                         ELSE 10 * FP
                /\ entries[i].windDirection
                     = IF windData.found THEN windData.windDirection * FP
                                         ELSE 45 * FP

\* ------------------------------------------------------------------------
\* Seed property
\* ------------------------------------------------------------------------

\* C30: within each group of draws (placement and size, rotation) of water
\* rocks, cliff outcrops and beach rocks, distinct (instance, attribute)
\* pairs use distinct seeds, for the instance counts of the rendered
\* rockDensity.
C30_DistinctSeeds ==
  shore.rendered =>
    \A g \in DOMAIN DrawGroups :
      LET count == BaseCount(DrawGroups[g].perUnit, shore.props.rockDensity)
          pairs == (0 .. count - 1) \X (0 .. DrawGroups[g].attributes - 1)
      IN  \A p, q \in pairs :
            p # q => DrawSeed(g, p[1], p[2]) # DrawSeed(g, q[1], q[2])

====
